---- MODULE Spec2Model ----
(***************************************************************************)
(* Model of the k8s-health-monitor health aggregation engine:              *)
(*   main.py             get_services_health (six probes), /services,      *)
(*                       /cluster, /gitops, nodes_status, pods_status      *)
(*                       /processes/{pid}/restart, /compose/health,        *)
(*                       /compose/processes/{process_name}                 *)
(*   process_manager.py  ProcessManager.check_resource_alerts,             *)
(*                       ProcessManager.restart_process                    *)
(*   process_compose_manager.py  get_project_info, get_process_info,       *)
(*                       get_process_health                                *)
(*                                                                         *)
(* The orchestrator API, the registry HTTP endpoints, the socket layer and *)
(* the host metrics provider are opaque collaborators: every call returns  *)
(* a value drawn from a small set or raises an error drawn from a small    *)
(* set.  Timestamps are not modelled.  In a message built by an f-string   *)
(* the literal part and the interpolated error are modelled; interpolated  *)
(* pod counts are not.                                                     *)
(***************************************************************************)
EXTENDS Integers, Sequences, FiniteSets, TLC

VARIABLES
    handler,     \* the query being served: "none", "services", "cluster", "gitops"
    pc,          \* "idle", "probes" (inside get_services_health), "done"
    probe,       \* index of the probe whose try-block is next; 7 = all six done
    services,    \* the local list `services` of get_services_health
    raised,      \* history: per probe, the error raised by one of its calls (NoErr if none)
    executed,    \* history: the probes whose try-block has run in this cycle
    httpLog,     \* history: HTTP GETs issued by the registry probe in this cycle
    nodes,       \* node list returned by the orchestrator in this cycle
    pods,        \* pod list returned by the orchestrator in this cycle
    nodes_data,  \* /gitops: the NodeStatus views returned by nodes_status()
    pods_data,   \* /gitops: the PodStatus views returned by pods_status()
    response,    \* the answer to the query
    resources,   \* check_resource_alerts: outcome of get_system_resources()
    alertPc,     \* /processes/alerts: "start", "returned" or "answered"
    alerts,      \* check_resource_alerts: the local list `alerts`
    op,          \* the operation being served or the function being applied
    opPc,        \* "idle", "called" (inputs fixed), "returned" (callee returned), "done"
    opInput,     \* what the collaborators answer during the operation
    opResult,    \* what the called function returned
    opResponse,  \* the HTTP answer of the operation's handler
    client,      \* the ProcessComposeManager's HTTP client: "none", "open", "closed"
    signals,     \* the signals sent to the target process, in order
    frames,      \* concurrent queries: per request, the locals of its handler
    sock         \* the load balancer probe's socket: "none", "open", "closed"

vars == <<handler, pc, probe, services, raised, executed, httpLog,
          nodes, pods, nodes_data, pods_data, response, resources, alertPc, alerts,
          op, opPc, opInput, opResult, opResponse, client, signals, frames, sock>>

k8sVars == <<handler, pc, probe, services, raised, executed, httpLog,
             nodes, pods, nodes_data, pods_data, response>>

alertVars == <<resources, alertPc, alerts>>

opsVars == <<op, opPc, opInput, opResult, opResponse, client, signals>>

----------------------------------------------------------------------------
(* Bounds of the model.                                                    *)

MaxNodes == 2        \* longest node list enumerated with every mix of conditions
MaxProbePods == 2    \* longest pod list a probe's label selector returns
MaxRequests == 2     \* queries served concurrently
Unit == 10           \* resource readings are integers in 1/Unit of a percent

(* Program constants.                                                      *)

NumProbes == 6
DefaultLimit == 50   \* pods_status(namespace=None, limit=50)
MsgCut == 80         \* str(e)[:80] in the registry probe
CpuWarn == 80
CpuCrit == 90
MemWarn == 80
MemCrit == 90
DiskWarn == 85
DiskCrit == 95
LoadFactor == 2

Min(a, b) == IF a < b THEN a ELSE b

----------------------------------------------------------------------------
(* Errors raised by collaborators.  text identifies str(e), len is its     *)
(* length, host tells whether the text contains "host.k3d.internal", base  *)
(* is the builtin base class of the error's type.                          *)

NoErr == [text |-> "", len |-> 0, host |-> FALSE, base |-> "none"]

ApiErrors ==
    {[text |-> "ApiException (403) Reason: Forbidden ...", len |-> 212,
      host |-> FALSE, base |-> "Exception"]}

HttpErrors ==
    {[text |-> "ConnectError: All connection attempts failed", len |-> 44,
      host |-> FALSE, base |-> "Exception"]}

ClientErrors ==
    {[text |-> "No module named 'httpx'", len |-> 23,
      host |-> FALSE, base |-> "Exception"]}

SocketErrors ==
    {[text |-> "[Errno -2] Name or service not known", len |-> 36,
      host |-> FALSE, base |-> "Exception"],
     [text |-> "cannot resolve host.k3d.internal", len |-> 32,
      host |-> TRUE, base |-> "Exception"]}

(* Variant: `except ApiException as e`.                                    *)
CatchesApiOnly(e) == e \in ApiErrors

(* `except Exception as e`                                                 *)
Catches(e) == e.base = "Exception"

(* str(e)[:80]                                                             *)
Truncate(e) == [e EXCEPT !.len = Min(e.len, MsgCut)]

----------------------------------------------------------------------------
(* HealthStatus and what one probe's try/except produces.                  *)

HealthStatus(svc, st, txt, e) ==
    [service |-> svc, status |-> st, message |-> [text |-> txt, err |-> e]]

(* A probe appended h; e is the error one of its calls raised (or NoErr),   *)
(* log the HTTP requests it issued.                                        *)
Appended(h, e) == [entries |-> <<h>>, raised |-> e, escaped |-> FALSE, log |-> <<>>]

(* The error is not caught by the probe's except clause.                   *)
Escaped(e, httplog) == [entries |-> <<>>, raised |-> e, escaped |-> TRUE, log |-> httplog]

(* Variant: the except clause swallows the error and appends nothing.      *)
OnErrorSilent(svc, txt, e) ==
    [entries |-> <<>>, raised |-> e, escaped |-> FALSE, log |-> <<>>]

(* Variant: the except clause reports "unhealthy" without the error text.  *)
OnErrorUnhealthy(svc, txt, e) ==
    Appended(HealthStatus(svc, "unhealthy", txt, NoErr), e)

(* The except clause of a pod-based probe: status "error", text embedded.  *)
OnError(svc, txt, e) ==
    IF Catches(e)
    THEN Appended(HealthStatus(svc, "error", txt, e), e)
    ELSE Escaped(e, <<>>)

(* Variant: all(...) alone, which an empty list satisfies.                 *)
PodStatusOkVacuous(items) == \A i \in 1..Len(items) : items[i] = "Running"

(* `items and all(pod.status.phase == "Running" for pod in items)`         *)
AllRunning(items) == \A i \in 1..Len(items) : items[i] = "Running"

PodStatusOk(items) == Len(items) > 0 /\ AllRunning(items)

(* len(svc.items) > 0                                                      *)
SvcStatusOk(items) == Len(items) > 0

----------------------------------------------------------------------------
(* What the collaborators may answer.  A result is a returned value or a   *)
(* raised error.                                                           *)

Ret(v) == [kind |-> "ret", val |-> v, err |-> NoErr]

PodPhases == {"Running", "Pending"}

SeqsUpTo(S, n) == UNION {[1..k -> S] : k \in 0..n}

(* v1.list_namespaced_pod(ns, label_selector=...) as a probe sees it: the  *)
(* phases of the matching pods.                                            *)
ProbePodResults ==
    {Ret(l) : l \in SeqsUpTo(PodPhases, MaxProbePods)}
    \cup {[kind |-> "raise", val |-> <<>>, err |-> e] : e \in ApiErrors}

(* v1.list_namespaced_service(ns, field_selector=...): the matching names. *)
SvcResults ==
    {Ret(<<>>), Ret(<<"svc">>)}
    \cup {[kind |-> "raise", val |-> <<>>, err |-> e] : e \in ApiErrors}

(* The monitor's own pods: phase and the first 23 characters of each       *)
(* container's image (the length of "registry.localhost:5001").            *)
RegistryHost == "registry.localhost:5001"

OwnPod(ph, imgs) == [phase |-> ph, images |-> imgs]

OwnPodResults ==
    {Ret(<<>>),
     Ret(<<OwnPod("Running", <<RegistryHost>>)>>),
     Ret(<<OwnPod("Running", <<"docker.io/library/busyb", RegistryHost>>)>>),
     Ret(<<OwnPod("Running", <<"docker.io/library/busyb">>)>>),
     Ret(<<OwnPod("Pending", <<RegistryHost>>)>>),
     Ret(<<OwnPod("Pending", <<RegistryHost>>), OwnPod("Running", <<RegistryHost>>)>>)}
    \cup {[kind |-> "raise", val |-> <<>>, err |-> e] : e \in ApiErrors}

(* `import httpx` and httpx.AsyncClient(timeout=3.0, verify=False)         *)
ClientResults ==
    {Ret(0)} \cup {[kind |-> "raise", val |-> 0, err |-> e] : e \in ClientErrors}

(* client.get(url): an HTTP status code, or a raised transport error.      *)
HttpResults ==
    {Ret(200), Ret(401), Ret(503)}
    \cup {[kind |-> "raise", val |-> 0, err |-> e] : e \in HttpErrors}

RegistryUrls ==
    <<"http://registry.localhost:5001/v2/", "http://host.k3d.internal:5001/v2/">>

(* sock.connect_ex(('host.k3d.internal', 80)): 0, an errno, or a raised    *)
(* error (name resolution is not a C-level connect() error).               *)
ConnectResults ==
    {Ret(0), Ret(111)}
    \cup {[kind |-> "raise", val |-> 0, err |-> e] : e \in SocketErrors}

(* socket.gethostbyname('host.k3d.internal'): an address, or raises.       *)
ResolveResults ==
    {Ret("172.18.0.1")}
    \cup {[kind |-> "raise", val |-> "", err |-> e] : e \in SocketErrors}

----------------------------------------------------------------------------
(* The six probes of get_services_health.                                  *)

ArgoCDProbe(podsRes, svcRes) ==
    IF podsRes.kind = "raise"
    THEN OnError("ArgoCD", "GitOps check failed: {e}", podsRes.err)
    ELSE IF svcRes.kind = "raise"
    THEN OnError("ArgoCD", "GitOps check failed: {e}", svcRes.err)
    ELSE IF PodStatusOk(podsRes.val) /\ SvcStatusOk(svcRes.val)
    THEN Appended(HealthStatus("ArgoCD", "healthy",
                               "GitOps controller ready ({n} pods)", NoErr), NoErr)
    ELSE Appended(HealthStatus("ArgoCD", "unhealthy",
                               "GitOps controller not ready", NoErr), NoErr)

GiteaProbe(podsRes, svcRes, dbRes) ==
    IF podsRes.kind = "raise"
    THEN OnError("Gitea", "Git server check failed: {e}", podsRes.err)
    ELSE IF svcRes.kind = "raise"
    THEN OnError("Gitea", "Git server check failed: {e}", svcRes.err)
    ELSE IF dbRes.kind = "raise"
    THEN OnError("Gitea", "Git server check failed: {e}", dbRes.err)
    ELSE IF PodStatusOk(podsRes.val) /\ PodStatusOk(dbRes.val) /\ SvcStatusOk(svcRes.val)
    THEN Appended(HealthStatus("Gitea", "healthy",
                               "Git server ready (app: {n}, db: {n} pods)", NoErr), NoErr)
    ELSE Appended(HealthStatus("Gitea", "unhealthy",
                               "Git server not ready", NoErr), NoErr)

TraefikProbe(podsRes, svcRes) ==
    IF podsRes.kind = "raise"
    THEN OnError("Traefik", "Ingress check failed: {e}", podsRes.err)
    ELSE IF svcRes.kind = "raise"
    THEN OnError("Traefik", "Ingress check failed: {e}", svcRes.err)
    ELSE IF PodStatusOk(podsRes.val) /\ SvcStatusOk(svcRes.val)
    THEN Appended(HealthStatus("Traefik", "healthy",
                               "Ingress controller ready ({n} pods)", NoErr), NoErr)
    ELSE Appended(HealthStatus("Traefik", "unhealthy",
                               "Ingress controller not ready", NoErr), NoErr)

CertManagerProbe(ctlRes, hookRes, injRes) ==
    IF ctlRes.kind = "raise"
    THEN OnError("cert-manager", "TLS manager check failed: {e}", ctlRes.err)
    ELSE IF hookRes.kind = "raise"
    THEN OnError("cert-manager", "TLS manager check failed: {e}", hookRes.err)
    ELSE IF injRes.kind = "raise"
    THEN OnError("cert-manager", "TLS manager check failed: {e}", injRes.err)
    ELSE IF PodStatusOk(ctlRes.val) /\ PodStatusOk(hookRes.val) /\ PodStatusOk(injRes.val)
    THEN Appended(HealthStatus("cert-manager", "healthy",
                               "TLS certificate manager ready ({n} pods)", NoErr), NoErr)
    ELSE Appended(HealthStatus("cert-manager", "unhealthy",
                               "TLS certificate manager not ready", NoErr), NoErr)

(* Variant: every container's image must come from the registry.          *)
RegistryWorkingAllImages(items) ==
    /\ Len(items) > 0
    /\ items[1].phase = "Running"
    /\ \A c \in 1..Len(items[1].images) : items[1].images[c] = RegistryHost

(* Registry probe, first tier: our own pod is Running and one of its       *)
(* containers' images starts with the registry host.                       *)
RegistryWorking(items) ==
    /\ Len(items) > 0
    /\ items[1].phase = "Running"
    /\ \E c \in 1..Len(items[1].images) : items[1].images[c] = RegistryHost

(* The outer except clause of the registry probe: "warning", str(e)[:80].  *)
OnRegistryError(e, httplog) ==
    IF Catches(e)
    THEN [Appended(HealthStatus("Local Registry", "warning",
                                "Registry check inconclusive: {str(e)[:80]}",
                                Truncate(e)), e) EXCEPT !.log = httplog]
    ELSE Escaped(e, httplog)

(* Variant: `response.status_code == 200`.                                 *)
AcceptableOkOnly(code) == code = 200

(* `response.status_code in [200, 401]`                                    *)
Acceptable(code) == code \in {200, 401}

(* `for url in [...]: try: ... break  except: continue  else: ...` from    *)
(* candidate k on; gets[k] is what client.get answers for candidate k.     *)
RECURSIVE TryUrls(_, _, _, _)
TryUrls(k, gets, httplog, e) ==
    IF k > Len(RegistryUrls)
    THEN [Appended(HealthStatus("Local Registry", "warning",
                                "Registry not directly accessible (may still be working)",
                                NoErr), e) EXCEPT !.log = httplog]
    ELSE LET r == gets[k]
             log2 == Append(httplog, [url |-> RegistryUrls[k], kind |-> r.kind,
                                      code |-> r.val])
         IN  IF r.kind = "raise"
             THEN TryUrls(k + 1, gets, log2, r.err)
             ELSE IF Acceptable(r.val)
             THEN [Appended(HealthStatus("Local Registry", "healthy",
                                         "Registry accessible via HTTP", NoErr), e)
                       EXCEPT !.log = log2]
             ELSE TryUrls(k + 1, gets, log2, e)

RegistryProbe(ownRes, clientRes, gets) ==
    IF ownRes.kind = "raise"
    THEN OnRegistryError(ownRes.err, <<>>)
    ELSE IF RegistryWorking(ownRes.val)
    THEN Appended(HealthStatus("Local Registry", "healthy",
                               "Registry operational (image pulled successfully)",
                               NoErr), NoErr)
    ELSE IF clientRes.kind = "raise"
    THEN OnRegistryError(clientRes.err, <<>>)
    ELSE TryUrls(1, gets, <<>>, NoErr)

(* The except clause of the load balancer probe.                           *)
OnLoadBalancerError(e) ==
    IF ~Catches(e)
    THEN Escaped(e, <<>>)
    ELSE IF e.host
    THEN Appended(HealthStatus("k3d LoadBalancer", "warning",
                               "k3d networking check inconclusive", NoErr), e)
    ELSE Appended(HealthStatus("k3d LoadBalancer", "healthy",
                               "LoadBalancer operational (we're running in k3d)",
                               NoErr), e)

(* The probe's socket when its try/except is left: socket.socket(...)      *)
(* opens it, and sock.close() follows sock.connect_ex(...) inside the try  *)
(* block, so it is skipped when connect_ex raises; nothing else closes it. *)
ProbeSocket(connRes) == IF connRes.kind = "raise" THEN "open" ELSE "closed"

(* `if result == 0 or socket.gethostbyname('host.k3d.internal')`           *)
LoadBalancerProbe(connRes, resRes) ==
    IF connRes.kind = "raise"
    THEN OnLoadBalancerError(connRes.err)
    ELSE IF connRes.val = 0
    THEN Appended(HealthStatus("k3d LoadBalancer", "healthy",
                               "k3d networking operational", NoErr), NoErr)
    ELSE IF resRes.kind = "raise"
    THEN OnLoadBalancerError(resRes.err)
    ELSE IF resRes.val # ""
    THEN Appended(HealthStatus("k3d LoadBalancer", "healthy",
                               "k3d networking operational", NoErr), NoErr)
    ELSE Appended(HealthStatus("k3d LoadBalancer", "unhealthy",
                               "k3d networking not accessible", NoErr), NoErr)

----------------------------------------------------------------------------
(* The cluster as the orchestrator reports it.                             *)

ReadyConds ==
    <<[type |-> "MemoryPressure", status |-> "False"],
      [type |-> "Ready", status |-> "True"]>>
NotReadyConds == <<[type |-> "Ready", status |-> "False"]>>
PressureConds == <<[type |-> "MemoryPressure", status |-> "True"]>>

NodeKinds == {ReadyConds, NotReadyConds, PressureConds}

NodeLists ==
    UNION {{[i \in 1..k |-> [name |-> i, conditions |-> f[i]]] : f \in [1..k -> NodeKinds]}
           : k \in 0..MaxNodes}

(* A pod: phase and container_statuses (absent, or the ready flags).       *)
ReadyPod   == [phase |-> "Running", cs |-> [present |-> TRUE, items |-> <<TRUE>>]]
UnreadyPod == [phase |-> "Running", cs |-> [present |-> TRUE, items |-> <<TRUE, FALSE>>]]
PendingPod == [phase |-> "Pending", cs |-> [present |-> TRUE, items |-> <<FALSE>>]]
BarePod    == [phase |-> "Pending", cs |-> [present |-> FALSE, items |-> <<>>]]

Block(kind, n) == [i \in 1..n |-> kind]

(* Pods are delivered with names in descending order.                      *)
Named(kinds) ==
    [i \in 1..Len(kinds) |->
        [name |-> Len(kinds) + 1 - i, phase |-> kinds[i].phase, cs |-> kinds[i].cs]]

(* The pod of that name in a delivered list.                               *)
PodNamed(items, n) == items[Len(items) + 1 - n]

(* <<r, t>>: r ready pods followed by t pods that are not ready.           *)
PodShapes ==
    {<<0, 0>>, <<1, 0>>, <<0, 1>>, <<9, 1>>, <<8, 2>>, <<45, 6>>, <<89, 11>>, <<91, 9>>}

PodLists ==
    {Named(Block(ReadyPod, s[1]) \o Block(UnreadyPod, s[2])) : s \in PodShapes}
    \cup {Named(Block(UnreadyPod, 9) \o Block(ReadyPod, 91)),
          Named(<<PendingPod>>), Named(<<BarePod>>)}

CoreNodeLists == {l \in NodeLists : Len(l) = 1 /\ l[1].conditions = ReadyConds}

CorePodLists == {Named(<<ReadyPod>>)}

(* A three-node cluster with fifty pods in phase Running: every container  *)
(* ready, or six pods with a container that is not ready.                  *)
FleetNodes == [i \in 1..3 |-> [name |-> i, conditions |-> ReadyConds]]

FleetPodLists ==
    {Named(Block(ReadyPod, 50)), Named(Block(ReadyPod, 44) \o Block(UnreadyPod, 6))}

(* What v1.list_node() and v1.list_pod_for_all_namespaces() answer in one  *)
(* query cycle: every pod list with a sound node list, every node list     *)
(* with a sound pod list, some pairs where neither is sound, and failures. *)
ClusterReads ==
    {[nodes |-> Ret(n), pods |-> Ret(p)] : n \in CoreNodeLists, p \in PodLists}
    \cup {[nodes |-> Ret(n), pods |-> Ret(p)] : n \in NodeLists, p \in CorePodLists}
    \cup {[nodes |-> Ret(n), pods |-> Ret(p)] :
            n \in {l \in NodeLists : Len(l) = 1 /\ l[1].conditions = NotReadyConds},
            p \in {Named(<<PendingPod>>), Named(<<>>)}}
    \cup {[nodes |-> Ret(FleetNodes), pods |-> Ret(p)] : p \in FleetPodLists}
    \cup {[nodes |-> [kind |-> "raise", val |-> <<>>, err |-> e], pods |-> Ret(<<>>)]
            : e \in ApiErrors}
    \cup {[nodes |-> Ret(n), pods |-> [kind |-> "raise", val |-> <<>>, err |-> e]]
            : n \in CoreNodeLists, e \in ApiErrors}

(* Variant: all(c.status == "True" for c in conditions)                    *)
NodeReadyAllTrue(node) ==
    \A c \in 1..Len(node.conditions) : node.conditions[c].status = "True"

(* any(c.type == "Ready" and c.status == "True" for c in conditions)       *)
NodeReady(node) ==
    \E c \in 1..Len(node.conditions) :
        node.conditions[c].type = "Ready" /\ node.conditions[c].status = "True"

(* sum(1 for x in items if <flag of x>), over the flags in list order.     *)
RECURSIVE CountTrue(_)
CountTrue(flags) ==
    IF flags = <<>> THEN 0
    ELSE (IF Head(flags) THEN 1 ELSE 0) + CountTrue(Tail(flags))

PodRunning(pod) == pod.phase = "Running"
IsHealthy(svc) == svc.status = "healthy"
ViewReady(view) == view.ready

----------------------------------------------------------------------------
(* nodes_status() and pods_status() as called by /gitops.                  *)

(* raise HTTPException(status_code=500, detail=str(e))                     *)
HttpException(e) == [kind |-> "raise", val |-> <<>>, err |-> e]

ValidationError ==
    [text |-> "1 validation error for PodStatus: ready", len |-> 39,
     host |-> FALSE, base |-> "Exception"]

NodesStatus(nodesRes) ==
    IF nodesRes.kind = "raise"
    THEN HttpException(nodesRes.err)
    ELSE Ret([i \in 1..Len(nodesRes.val) |->
                [name |-> nodesRes.val[i].name, ready |-> NodeReady(nodesRes.val[i])]])

(* `container_statuses and all(cs.ready for cs in container_statuses)`:    *)
(* None or [] when there are no container statuses, else a bool.           *)
ReadyExpr(cs) ==
    IF ~cs.present THEN [kind |-> "none", val |-> FALSE]
    ELSE IF cs.items = <<>> THEN [kind |-> "list", val |-> FALSE]
    ELSE [kind |-> "bool", val |-> \A c \in 1..Len(cs.items) : cs.items[c]]

(* pods.items[:limit]: the first `limit` items; a negative limit counts    *)
(* from the end, so the last -limit items are dropped.                     *)
Take(items, limit) ==
    IF limit >= 0
    THEN SubSeq(items, 1, Min(Len(items), limit))
    ELSE SubSeq(items, 1, IF Len(items) + limit > 0 THEN Len(items) + limit ELSE 0)

(* sorted(pod_list, key=lambda x: x.name): stable, ascending.              *)
SortByName(views) ==
    LET n == Len(views)
        Rank(i) == Cardinality({j \in 1..n : views[j].name < views[i].name})
                   + Cardinality({j \in 1..(i - 1) : views[j].name = views[i].name})
                   + 1
    IN  [k \in 1..n |-> views[CHOOSE i \in 1..n : Rank(i) = k]]

PodsStatus(podsRes, limit) ==
    IF podsRes.kind = "raise"
    THEN HttpException(podsRes.err)
    ELSE LET first == Take(podsRes.val, limit)
         IN  IF \E i \in 1..Len(first) : ReadyExpr(first[i].cs).kind # "bool"
             THEN HttpException(ValidationError)
             ELSE Ret(SortByName(
                    [i \in 1..Len(first) |->
                        [name |-> first[i].name,
                         status |-> IF first[i].phase = "" THEN "Unknown"
                                    ELSE first[i].phase,
                         ready |-> ReadyExpr(first[i].cs).val]]))

----------------------------------------------------------------------------
(* The roll-ups of /cluster and /gitops.                                   *)

HealthyCount(svcs) == CountTrue([i \in 1..Len(svcs) |-> IsHealthy(svcs[i])])

NodesReadyCount(items) == CountTrue([i \in 1..Len(items) |-> NodeReady(items[i])])

PodsRunningCount(items) == CountTrue([i \in 1..Len(items) |-> PodRunning(items[i])])

ViewsReadyCount(views) == CountTrue([i \in 1..Len(views) |-> ViewReady(views[i])])

(* Variant: `pods_running >= 0`.                                           *)
ClusterHealthyLax(nodes_ready, nodes_total, pods_running, services_healthy) ==
    nodes_ready = nodes_total /\ pods_running >= 0 /\ services_healthy > 0

(* Variant: at least one node must exist.                                  *)
ClusterHealthyNeedsNodes(nodes_ready, nodes_total, pods_running, services_healthy) ==
    nodes_total > 0 /\ nodes_ready = nodes_total /\ pods_running > 0 /\ services_healthy > 0

ClusterHealthy(nodes_ready, nodes_total, pods_running, services_healthy) ==
    nodes_ready = nodes_total /\ pods_running > 0 /\ services_healthy > 0

ClusterStatus(nodeItems, podItems, svcs) ==
    [kind |-> "cluster", code |-> 200,
     healthy |-> ClusterHealthy(NodesReadyCount(nodeItems), Len(nodeItems),
                                PodsRunningCount(podItems), HealthyCount(svcs)),
     nodes_ready |-> NodesReadyCount(nodeItems),
     nodes_total |-> Len(nodeItems),
     pods_running |-> PodsRunningCount(podItems),
     pods_total |-> Len(podItems),
     services_healthy |-> HealthyCount(svcs),
     services_total |-> Len(svcs)]

(* Variant: no pod condition.                                              *)
PodToleranceOff(running_pods, total_pods) == TRUE

(* running_pods >= total_pods * 0.9: an int against a float product.  For  *)
(* every total up to 200000 the float comparison agrees with the exact     *)
(* one, 10 * running >= 9 * total.                                         *)
PodTolerance(running_pods, total_pods) == running_pods * 10 >= total_pods * 9

(* Variant: the lenient service rule of /cluster, `healthy_services > 0`.  *)
PlatformHealthyLenient(healthy_services, total_services, ready_nodes, total_nodes, running_pods, total_pods) ==
    /\ healthy_services > 0
    /\ ready_nodes = total_nodes
    /\ PodTolerance(running_pods, total_pods)

PlatformHealthy(healthy_services, total_services, ready_nodes, total_nodes, running_pods, total_pods) ==
    /\ healthy_services = total_services
    /\ ready_nodes = total_nodes
    /\ PodTolerance(running_pods, total_pods)

None == [none |-> TRUE]

(* next((s for s in services if s.service == name), None)                  *)
RECURSIVE FirstMatch(_, _)
FirstMatch(svcs, name) ==
    IF svcs = <<>> THEN None
    ELSE IF Head(svcs).service = name THEN Head(svcs)
    ELSE FirstMatch(Tail(svcs), name)

(* Variant: one role looked up under a misspelt service name.              *)
ComponentsMisspelt(svcs) ==
    [gitops         |-> FirstMatch(svcs, "ArgoCD"),
     git_repository |-> FirstMatch(svcs, "Gitea"),
     ingress        |-> FirstMatch(svcs, "Traefik"),
     tls_manager    |-> FirstMatch(svcs, "cert-manager"),
     registry       |-> FirstMatch(svcs, "Registry"),
     loadbalancer   |-> FirstMatch(svcs, "k3d LoadBalancer")]

Components(svcs) ==
    [gitops         |-> FirstMatch(svcs, "ArgoCD"),
     git_repository |-> FirstMatch(svcs, "Gitea"),
     ingress        |-> FirstMatch(svcs, "Traefik"),
     tls_manager    |-> FirstMatch(svcs, "cert-manager"),
     registry       |-> FirstMatch(svcs, "Local Registry"),
     loadbalancer   |-> FirstMatch(svcs, "k3d LoadBalancer")]

GitopsStatus(svcs, nodeViews, podViews) ==
    [kind |-> "gitops", code |-> 200,
     platform_healthy |-> PlatformHealthy(HealthyCount(svcs), Len(svcs),
                                          ViewsReadyCount(nodeViews), Len(nodeViews),
                                          ViewsReadyCount(podViews), Len(podViews)),
     services |-> [healthy |-> HealthyCount(svcs), total |-> Len(svcs), details |-> svcs],
     infrastructure |->
        [nodes_ready |-> <<ViewsReadyCount(nodeViews), Len(nodeViews)>>,
         pods_running |-> <<ViewsReadyCount(podViews), Len(podViews)>>],
     components |-> Components(svcs)]

(* A request answered with HTTP 500.                                       *)
ServerError(h, e) == [kind |-> h, code |-> 500, detail |-> e]

NoResponse == [kind |-> "none", code |-> 0]

----------------------------------------------------------------------------
(* The request machine.                                                    *)

NoResources == [kind |-> "none"]

(* The locals of one request's handler and of its get_services_health()   *)
(* call.  url is the candidate whose GET the registry probe is suspended   *)
(* on (0: none).  origin and ran are history: the request whose probe      *)
(* produced each entry of services, and the probes this request has run.   *)
IdleFrame ==
    [handler |-> "none", pc |-> "idle", probe |-> 1, url |-> 0, services |-> <<>>,
     origin |-> <<>>, ran |-> {}, response |-> NoResponse]

Requests == 1..MaxRequests

InitFrames == frames = [r \in Requests |-> IdleFrame]

NoInput == [kind |-> "none"]
NoResult == [kind |-> "none"]

(* No operation on the host or on the remote supervisor is in progress.    *)
InitOps ==
    /\ op = "none"
    /\ opPc = "idle"
    /\ opInput = NoInput
    /\ opResult = NoResult
    /\ opResponse = NoResponse
    /\ client = "none"
    /\ signals = <<>>

InitK8s ==
    /\ handler = "none"
    /\ pc = "idle"
    /\ probe = 1
    /\ services = <<>>
    /\ raised = [i \in 1..NumProbes |-> NoErr]
    /\ executed = {}
    /\ httpLog = <<>>
    /\ nodes = <<>>
    /\ pods = <<>>
    /\ nodes_data = <<>>
    /\ pods_data = <<>>
    /\ response = NoResponse
    /\ sock = "none"

Init ==
    /\ InitK8s
    /\ InitOps
    /\ InitFrames
    /\ resources = NoResources
    /\ alertPc = "start"
    /\ alerts = <<>>

(* A new query starts get_services_health from scratch.                    *)
FreshCycle ==
    /\ probe' = 1
    /\ services' = <<>>
    /\ raised' = [i \in 1..NumProbes |-> NoErr]
    /\ executed' = {}
    /\ httpLog' = <<>>
    /\ nodes_data' = <<>>
    /\ pods_data' = <<>>

(* GET /services                                                           *)
RequestServices ==
    /\ pc = "idle"
    /\ handler' = "services"
    /\ pc' = "probes"
    /\ FreshCycle
    /\ nodes' = <<>>
    /\ pods' = <<>>
    /\ response' = NoResponse
    /\ UNCHANGED <<alertVars, opsVars, frames, sock>>

(* GET /cluster: list_node() and list_pod_for_all_namespaces() come first. *)
RequestCluster ==
    /\ pc = "idle"
    /\ handler' = "cluster"
    /\ FreshCycle
    /\ \E rd \in ClusterReads :
          IF rd.nodes.kind = "raise"
          THEN /\ pc' = "done"
               /\ nodes' = <<>>
               /\ pods' = <<>>
               /\ response' = ServerError("cluster", rd.nodes.err)
          ELSE IF rd.pods.kind = "raise"
          THEN /\ pc' = "done"
               /\ nodes' = rd.nodes.val
               /\ pods' = <<>>
               /\ response' = ServerError("cluster", rd.pods.err)
          ELSE /\ pc' = "probes"
               /\ nodes' = rd.nodes.val
               /\ pods' = rd.pods.val
               /\ response' = NoResponse
    /\ UNCHANGED <<alertVars, opsVars, frames, sock>>

(* GET /gitops: get_services_health() comes first.                         *)
RequestGitops ==
    /\ pc = "idle"
    /\ handler' = "gitops"
    /\ pc' = "probes"
    /\ FreshCycle
    /\ nodes' = <<>>
    /\ pods' = <<>>
    /\ response' = NoResponse
    /\ UNCHANGED <<alertVars, opsVars, frames, sock>>

(* Variant: the probes are tasks that may start in any order.              *)
ProbeTurnAny(i) == pc = "probes" /\ i \notin executed

(* The try-blocks of get_services_health are statements in sequence: try-  *)
(* block i is reached when the blocks before it have completed.            *)
ProbeTurn(i) == pc = "probes" /\ probe = i

(* Variant: every probe records its result twice.                          *)
AppendResultTwice(svcs, entries) == svcs \o entries \o entries

(* Variant: services.insert(0, ...)                                        *)
AppendResultFront(svcs, entries) == entries \o svcs

(* services.append(...)                                                    *)
AppendResult(svcs, entries) == svcs \o entries

(* The effect of probe i's try/except with outcome out.  An error that     *)
(* escapes leaves get_services_health and the handler answers 500.         *)
ApplyProbe(i, out) ==
    /\ executed' = executed \cup {i}
    /\ raised' = [raised EXCEPT ![i] = out.raised]
    /\ httpLog' = httpLog \o out.log
    /\ IF out.escaped
       THEN /\ services' = services
            /\ probe' = probe
            /\ pc' = "done"
            /\ response' = ServerError(handler, out.raised)
       ELSE /\ services' = AppendResult(services, out.entries)
            /\ probe' = i + 1
            /\ pc' = pc
            /\ response' = response
    /\ UNCHANGED <<handler, nodes, pods, nodes_data, pods_data, alertVars, opsVars, frames>>

ProbeArgoCD ==
    /\ ProbeTurn(1)
    /\ UNCHANGED sock
    /\ \E podsRes \in ProbePodResults, svcRes \in SvcResults :
          ApplyProbe(1, ArgoCDProbe(podsRes, svcRes))

ProbeGitea ==
    /\ ProbeTurn(2)
    /\ UNCHANGED sock
    /\ \E podsRes \in ProbePodResults, svcRes \in SvcResults, dbRes \in ProbePodResults :
          ApplyProbe(2, GiteaProbe(podsRes, svcRes, dbRes))

ProbeTraefik ==
    /\ ProbeTurn(3)
    /\ UNCHANGED sock
    /\ \E podsRes \in ProbePodResults, svcRes \in SvcResults :
          ApplyProbe(3, TraefikProbe(podsRes, svcRes))

ProbeCertManager ==
    /\ ProbeTurn(4)
    /\ UNCHANGED sock
    /\ \E ctlRes \in ProbePodResults, hookRes \in ProbePodResults,
          injRes \in ProbePodResults :
          ApplyProbe(4, CertManagerProbe(ctlRes, hookRes, injRes))

ProbeRegistry ==
    /\ ProbeTurn(5)
    /\ UNCHANGED sock
    /\ \E ownRes \in OwnPodResults, clientRes \in ClientResults,
          gets \in [1..Len(RegistryUrls) -> HttpResults] :
          ApplyProbe(5, RegistryProbe(ownRes, clientRes, gets))

ProbeLoadBalancer ==
    /\ ProbeTurn(6)
    /\ \E connRes \in ConnectResults, resRes \in ResolveResults :
          /\ ApplyProbe(6, LoadBalancerProbe(connRes, resRes))
          /\ sock' = ProbeSocket(connRes)

(* `return services`, handed on by /services.                              *)
ReturnServices ==
    /\ handler = "services"
    /\ ProbeTurn(NumProbes + 1)
    /\ pc' = "done"
    /\ response' = [kind |-> "services", code |-> 200, body |-> services]
    /\ UNCHANGED <<handler, probe, services, raised, executed, httpLog,
                   nodes, pods, nodes_data, pods_data, alertVars, opsVars, frames, sock>>

(* /cluster after get_services_health() has returned.                      *)
FinishCluster ==
    /\ handler = "cluster"
    /\ ProbeTurn(NumProbes + 1)
    /\ pc' = "done"
    /\ response' = ClusterStatus(nodes, pods, services)
    /\ UNCHANGED <<handler, probe, services, raised, executed, httpLog,
                   nodes, pods, nodes_data, pods_data, alertVars, opsVars, frames, sock>>

(* pods_status() with its defaults, per pod list (a constant table).       *)
PodsStatusDefault == [r \in {rd.pods : rd \in ClusterReads} |-> PodsStatus(r, DefaultLimit)]

(* /gitops after get_services_health() has returned: nodes_status(),       *)
(* pods_status(), then the roll-up; any exception becomes a 500.           *)
FinishGitops ==
    /\ handler = "gitops"
    /\ ProbeTurn(NumProbes + 1)
    /\ pc' = "done"
    /\ \E rd \in ClusterReads :
          LET nd == NodesStatus(rd.nodes)
              pd == PodsStatusDefault[rd.pods]
          IN  IF nd.kind = "raise"
              THEN /\ nodes' = <<>>
                   /\ pods' = <<>>
                   /\ nodes_data' = <<>>
                   /\ pods_data' = <<>>
                   /\ response' = ServerError("gitops", nd.err)
              ELSE IF pd.kind = "raise"
              THEN /\ nodes' = rd.nodes.val
                   /\ pods' = rd.pods.val
                   /\ nodes_data' = nd.val
                   /\ pods_data' = <<>>
                   /\ response' = ServerError("gitops", pd.err)
              ELSE /\ nodes' = rd.nodes.val
                   /\ pods' = rd.pods.val
                   /\ nodes_data' = nd.val
                   /\ pods_data' = pd.val
                   /\ response' = GitopsStatus(services, nd.val, pd.val)
    /\ UNCHANGED <<handler, probe, services, raised, executed, httpLog, alertVars, opsVars, frames, sock>>

(* The answer is delivered; nothing of the query cycle is kept.            *)
Respond ==
    /\ pc = "done"
    /\ handler' = "none"
    /\ pc' = "idle"
    /\ FreshCycle
    /\ nodes' = <<>>
    /\ pods' = <<>>
    /\ response' = NoResponse
    /\ sock' = "none"
    /\ UNCHANGED <<alertVars, opsVars, frames>>

Next ==
    \/ RequestServices
    \/ RequestCluster
    \/ RequestGitops
    \/ ProbeArgoCD
    \/ ProbeGitea
    \/ ProbeTraefik
    \/ ProbeCertManager
    \/ ProbeRegistry
    \/ ProbeLoadBalancer
    \/ ReturnServices
    \/ FinishCluster
    \/ FinishGitops
    \/ Respond

Spec == Init /\ [][Next]_vars

----------------------------------------------------------------------------
(* ProcessManager.check_resource_alerts.  Readings are integers in 1/Unit  *)
(* of a percent (of a load unit for the load average).                     *)

ResourceErrors ==
    {[text |-> "psutil.Error: cannot read /proc/stat", len |-> 36,
      host |-> FALSE, base |-> "Exception"]}

Readings(warn, crit) ==
    {(warn - 1) * Unit, warn * Unit, warn * Unit + 1, (warn + 1) * Unit,
     crit * Unit - 1, crit * Unit, (crit + 1) * Unit}

CpuCounts == {1, 4}

LoadReadings ==
    {0, LoadFactor * Unit, LoadFactor * Unit + 1,
     4 * LoadFactor * Unit, 4 * LoadFactor * Unit + 1}

(* get_system_resources(): a SystemResources snapshot, or it raises.       *)
SystemResourcesResults ==
    {[kind |-> "ret", err |-> NoErr,
      val |-> [cpu_percent |-> c, cpu_count |-> n, memory_percent |-> m,
               disk_usage_percent |-> d, load_average |-> <<l, 0, 0>>]] :
        c \in Readings(CpuWarn, CpuCrit), n \in CpuCounts,
        m \in Readings(MemWarn, MemCrit), d \in Readings(DiskWarn, DiskCrit),
        l \in LoadReadings}
    \cup {[kind |-> "raise", err |-> e,
           val |-> [cpu_percent |-> 0, cpu_count |-> 0, memory_percent |-> 0,
                    disk_usage_percent |-> 0, load_average |-> <<0, 0, 0>>]] :
        e \in ResourceErrors}

Alert(t, sev, txt, v, e) ==
    [type |-> t, severity |-> sev, message |-> [text |-> txt, value |-> v, err |-> e]]

(* Variant: "warning" if value <= split else "critical"                    *)
SeverityInclusive(value, split) == IF value <= split * Unit THEN "warning" ELSE "critical"

(* "warning" if value < split else "critical"                              *)
Severity(value, split) == IF value < split * Unit THEN "warning" ELSE "critical"

CpuAlert(r) ==
    IF r.cpu_percent > CpuWarn * Unit
    THEN <<Alert("cpu", Severity(r.cpu_percent, CpuCrit),
                 "High CPU usage: {v}%", r.cpu_percent, NoErr)>>
    ELSE <<>>

MemoryAlert(r) ==
    IF r.memory_percent > MemWarn * Unit
    THEN <<Alert("memory", Severity(r.memory_percent, MemCrit),
                 "High memory usage: {v}%", r.memory_percent, NoErr)>>
    ELSE <<>>

DiskAlert(r) ==
    IF r.disk_usage_percent > DiskWarn * Unit
    THEN <<Alert("disk", Severity(r.disk_usage_percent, DiskCrit),
                 "High disk usage: {v}%", r.disk_usage_percent, NoErr)>>
    ELSE <<>>

LoadAlert(r) ==
    IF Len(r.load_average) > 0 /\ r.load_average[1] > r.cpu_count * LoadFactor * Unit
    THEN <<Alert("load", "warning", "High load average: {v}", r.load_average[1], NoErr)>>
    ELSE <<>>

(* Variant: the failure of get_system_resources() is swallowed and the     *)
(* list built so far is returned.                                          *)
CheckResourceAlertsQuiet(res) ==
    IF res.kind = "raise"
    THEN <<>>
    ELSE CpuAlert(res.val) \o MemoryAlert(res.val) \o DiskAlert(res.val)
         \o LoadAlert(res.val)

(* `alerts = []`, the four checks inside try, `except Exception`: the      *)
(* system alert is appended to the list built so far, which is empty when  *)
(* get_system_resources() is what raised.                                  *)
CheckResourceAlerts(res) ==
    IF res.kind = "raise"
    THEN <<Alert("system", "error", "Failed to check resource alerts: {e}", 0, res.err)>>
    ELSE CpuAlert(res.val) \o MemoryAlert(res.val) \o DiskAlert(res.val)
         \o LoadAlert(res.val)

InitAlerts ==
    /\ InitK8s
    /\ InitOps
    /\ InitFrames
    /\ resources \in SystemResourcesResults
    /\ alertPc = "start"
    /\ alerts = <<>>

CheckAlerts ==
    /\ alertPc = "start"
    /\ resources.kind # "none"
    /\ alerts' = CheckResourceAlerts(resources)
    /\ alertPc' = "returned"
    /\ UNCHANGED <<resources, k8sVars, opsVars, frames, sock>>

(* Variant: any(severity in ("critical", "error"))                         *)
HasCriticalOrError(als) ==
    \E i \in 1..Len(als) : als[i].severity \in {"critical", "error"}

(* any(alert.get("severity") == "critical" for alert in alerts)            *)
HasCritical(als) == \E i \in 1..Len(als) : als[i].severity = "critical"

(* GET /processes/alerts once check_resource_alerts() has returned: the    *)
(* alerts, their count and the has_critical flag.                          *)
ResourceAlerts ==
    /\ alertPc = "returned"
    /\ alertPc' = "answered"
    /\ response' = [kind |-> "alerts", code |-> 200, alerts |-> alerts,
                    count |-> Len(alerts), has_critical |-> HasCritical(alerts)]
    /\ UNCHANGED <<handler, pc, probe, services, raised, executed, httpLog,
                   nodes, pods, nodes_data, pods_data, resources, alerts, opsVars, frames, sock>>

NextAlerts ==
    \/ CheckAlerts
    \/ ResourceAlerts

SpecAlerts == InitAlerts /\ [][NextAlerts]_vars

----------------------------------------------------------------------------
(* ProcessComposeManager: the remote supervisor's project and processes.   *)

MaxProcs == 3        \* longest process list the remote supervisor returns
MaxPods == 3         \* longest pod list delivered to GET /pods

ProcStates == {"Running", "Failed", "Crashed", "Completed"}

(* The "processes" object of the /project answer: name -> status.          *)
ProcessLists ==
    UNION {{[i \in 1..k |-> [name |-> i, status |-> f[i]]] : f \in [1..k -> ProcStates]}
           : k \in 0..MaxProcs}

ComposeErrors ==
    {[text |-> "ConnectError: [Errno 111] Connection refused", len |-> 44,
      host |-> FALSE, base |-> "Exception"]}

(* client.get(f"{api_url}/project"): it raises, or answers with a status   *)
(* code and a body that response.json() parses or fails to parse.          *)
ProjectAnswers ==
    {[kind |-> "raise", code |-> 0, json |-> "none", processes |-> <<>>, err |-> e]
        : e \in ComposeErrors}
    \cup {[kind |-> "ret", code |-> 503, json |-> "ok", processes |-> <<>>, err |-> NoErr],
          [kind |-> "ret", code |-> 200, json |-> "bad", processes |-> <<>>, err |-> NoErr]}
    \cup {[kind |-> "ret", code |-> 200, json |-> "ok", processes |-> l, err |-> NoErr]
        : l \in ProcessLists}

ProcIsRunning(p) == p.status = "Running"

(* Variant: `p.status == "Failed"`.                                        *)
ProcIsFailedOnly(p) == p.status = "Failed"

(* p.status in ["Failed", "Crashed"]                                       *)
ProcIsFailed(p) == p.status \in {"Failed", "Crashed"}

ProcessComposeInfo(processes) ==
    [processes_count |-> Len(processes),
     running_processes |-> CountTrue([i \in 1..Len(processes) |-> ProcIsRunning(processes[i])]),
     processes |-> processes]

(* Variant: a failed query yields an empty project instead of None.        *)
GetProjectInfoEmpty(ans) ==
    IF ans.kind = "ret" /\ ans.code = 200 /\ ans.json = "ok"
    THEN ProcessComposeInfo(ans.processes)
    ELSE ProcessComposeInfo(<<>>)

(* get_project_info: a ProcessComposeInfo for a parsed 200 answer; None    *)
(* after an exception (logged) and, by falling off the end, for any other  *)
(* status code.                                                            *)
GetProjectInfo(ans) ==
    IF ans.kind = "raise" THEN None
    ELSE IF ans.code = 200
    THEN (IF ans.json = "bad" THEN None ELSE ProcessComposeInfo(ans.processes))
    ELSE None

(* {"status": ..., "message": ...} as the restart operations return it.   *)
Outcome(st, txt, subject) ==
    [status |-> st, message |-> [text |-> txt, subject |-> subject]]

Health(st, txt, names) == [status |-> st, message |-> [text |-> txt, names |-> names]]

(* get_process_health once project_info is known to be present.            *)
ProcessHealth(project_info) ==
    LET failed_processes == SelectSeq(project_info.processes, ProcIsFailed)
    IN  IF Len(failed_processes) > 0
        THEN Health("unhealthy", "{n} processes failed: {names}",
                    [i \in 1..Len(failed_processes) |-> failed_processes[i].name])
        ELSE IF project_info.running_processes = project_info.processes_count
        THEN Health("healthy", "All {total} processes running", <<>>)
        ELSE Health("degraded", "{running}/{total} processes running", <<>>)

GetProcessHealth(ans) ==
    LET project_info == GetProjectInfo(ans)
    IN  IF project_info = None
        THEN Health("error", "Process-compose not available", <<>>)
        ELSE ProcessHealth(project_info)

ProcessNames == {"web", "worker"}

(* client.get(f"{api_url}/processes/{process_name}")                       *)
ProcessAnswers ==
    {[kind |-> "raise", code |-> 0, json |-> "none", status |-> "", err |-> e]
        : e \in ComposeErrors}
    \cup {[kind |-> "ret", code |-> 404, json |-> "ok", status |-> "", err |-> NoErr],
          [kind |-> "ret", code |-> 200, json |-> "bad", status |-> "", err |-> NoErr]}
    \cup {[kind |-> "ret", code |-> 200, json |-> "ok", status |-> st, err |-> NoErr]
        : st \in ProcStates}

(* get_process_info: a ProcessStatus for a parsed 200 answer, else None.   *)
GetProcessInfo(process_name, ans) ==
    IF ans.kind = "raise" THEN None
    ELSE IF ans.code = 200
    THEN (IF ans.json = "bad" THEN None
          ELSE [name |-> process_name, status |-> ans.status])
    ELSE None

(* raise HTTPException(status_code=code, detail=...) inside a handler's    *)
(* try block.  HTTPException derives from Exception.                       *)
HTTPException(code, txt, subject) ==
    [status_code |-> code, detail |-> [text |-> txt, subject |-> subject],
     base |-> "Exception"]

(* An exception raised inside the handler's try block meets the handler's  *)
(* `except Exception as e: raise HTTPException(status_code=500, str(e))`.  *)
HandlerRaised(h, exc) ==
    IF Catches(exc)
    THEN [kind |-> h, code |-> 500, detail |-> exc]
    ELSE [kind |-> h, code |-> exc.status_code, detail |-> exc.detail]

(* Variant: the client is closed only when the block is left normally.     *)
LeaveScopeNoFinally(c, raising) == IF raising THEN c ELSE "closed"

(* ProcessComposeManager.__aexit__: `await self.client.aclose()`, whether  *)
(* the `async with` block is left normally or by an exception.             *)
LeaveScope(c, raising) == "closed"

(* GET /compose/health: the manager is constructed (its client opened) and *)
(* get_process_health() is awaited.                                        *)
RequestComposeHealth ==
    /\ opPc = "idle"
    /\ op' = "compose_health"
    /\ client' = "open"
    /\ \E ans \in ProjectAnswers :
          /\ opInput' = ans
          /\ opResult' = GetProcessHealth(ans)
    /\ opPc' = "returned"
    /\ opResponse' = NoResponse
    /\ UNCHANGED <<signals, k8sVars, alertVars, frames, sock>>

(* The `async with` block is left (the client is closed) and the health    *)
(* dict is returned.                                                       *)
FinishComposeHealth ==
    /\ op = "compose_health"
    /\ opPc = "returned"
    /\ client' = LeaveScope(client, FALSE)
    /\ opResponse' = [kind |-> op, code |-> 200, body |-> opResult]
    /\ opPc' = "done"
    /\ UNCHANGED <<op, opInput, opResult, signals, k8sVars, alertVars, frames, sock>>

(* GET /compose/processes/{process_name}                                   *)
RequestComposeProcess ==
    /\ opPc = "idle"
    /\ op' = "compose_process"
    /\ client' = "open"
    /\ \E process_name \in ProcessNames, ans \in ProcessAnswers :
          /\ opInput' = [process_name |-> process_name, answer |-> ans]
          /\ opResult' = GetProcessInfo(process_name, ans)
    /\ opPc' = "returned"
    /\ opResponse' = NoResponse
    /\ UNCHANGED <<signals, k8sVars, alertVars, frames, sock>>

(* `if not process_info: raise HTTPException(404, ...)` inside the try     *)
(* block; the `async with` block is left either way.                       *)
FinishComposeProcess ==
    /\ op = "compose_process"
    /\ opPc = "returned"
    /\ client' = LeaveScope(client, opResult = None)
    /\ opResponse' =
          IF opResult = None
          THEN HandlerRaised(op, HTTPException(404, "Process {process_name} not found",
                                               opInput.process_name))
          ELSE [kind |-> op, code |-> 200, body |-> opResult]
    /\ opPc' = "done"
    /\ UNCHANGED <<op, opInput, opResult, signals, k8sVars, alertVars, frames, sock>>

(* GET /compose/project                                                    *)
RequestComposeProject ==
    /\ opPc = "idle"
    /\ op' = "compose_project"
    /\ client' = "open"
    /\ \E ans \in ProjectAnswers :
          /\ opInput' = ans
          /\ opResult' = GetProjectInfo(ans)
    /\ opPc' = "returned"
    /\ opResponse' = NoResponse
    /\ UNCHANGED <<signals, k8sVars, alertVars, frames, sock>>

(* `if not project_info: raise HTTPException(503, ...)` inside the try     *)
(* block; the `async with` block is left either way.                       *)
FinishComposeProject ==
    /\ op = "compose_project"
    /\ opPc = "returned"
    /\ client' = LeaveScope(client, opResult = None)
    /\ opResponse' =
          IF opResult = None
          THEN HandlerRaised(op, HTTPException(503, "Process-compose not available", ""))
          ELSE [kind |-> op, code |-> 200, body |-> opResult]
    /\ opPc' = "done"
    /\ UNCHANGED <<op, opInput, opResult, signals, k8sVars, alertVars, frames, sock>>

(* client.post(f"{api_url}/processes/{process_name}/restart")              *)
PostAnswers ==
    {[kind |-> "raise", code |-> 0, err |-> e] : e \in ComposeErrors}
    \cup {[kind |-> "ret", code |-> c, err |-> NoErr] : c \in {200, 404}}

(* ProcessComposeManager.restart_process                                   *)
ComposeRestartProcess(process_name, ans) ==
    IF ans.kind = "raise" THEN Outcome("error", "{e}", ans.err.text)
    ELSE IF ans.code = 200
    THEN Outcome("success", "Process {process_name} restart initiated", process_name)
    ELSE Outcome("error", "Failed to restart {process_name}: {response.text}", process_name)

(* POST /compose/processes/{process_name}/restart                          *)
RequestComposeRestart ==
    /\ opPc = "idle"
    /\ op' = "compose_restart"
    /\ client' = "open"
    /\ \E process_name \in ProcessNames, ans \in PostAnswers :
          /\ opInput' = [process_name |-> process_name, answer |-> ans]
          /\ opResult' = ComposeRestartProcess(process_name, ans)
    /\ opPc' = "returned"
    /\ opResponse' = NoResponse
    /\ UNCHANGED <<signals, k8sVars, alertVars, frames, sock>>

(* `if result["status"] == "error": raise HTTPException(400, ...)` inside  *)
(* the try block; the `async with` block is left either way.               *)
FinishComposeRestart ==
    /\ op = "compose_restart"
    /\ opPc = "returned"
    /\ client' = LeaveScope(client, opResult.status = "error")
    /\ opResponse' =
          IF opResult.status = "error"
          THEN HandlerRaised(op, HTTPException(400, opResult.message.text,
                                               opResult.message.subject))
          ELSE [kind |-> op, code |-> 200, body |-> opResult]
    /\ opPc' = "done"
    /\ UNCHANGED <<op, opInput, opResult, signals, k8sVars, alertVars, frames, sock>>

----------------------------------------------------------------------------
(* GET /pods?namespace=&limit=                                             *)

(* A pod whose container_statuses is an empty list.                        *)
EmptyPod == [phase |-> "Pending", cs |-> [present |-> TRUE, items |-> <<>>]]

ListedPodKinds == {ReadyPod, UnreadyPod, BarePod, EmptyPod}

(* The orders in which up to MaxPods pods of distinct names are delivered. *)
PodOrders ==
    UNION {{o \in [1..k -> 1..MaxPods] : \A i \in 1..k, j \in 1..k : o[i] = o[j] => i = j}
           : k \in 0..MaxPods}

ListedPods ==
    UNION {{[i \in 1..Len(o) |-> [name |-> o[i], phase |-> f[i].phase, cs |-> f[i].cs]]
              : f \in [1..Len(o) -> ListedPodKinds]}
           : o \in PodOrders}

(* The `limit` query parameter: any int.                                   *)
Limits == {-1, 0, 1, 2, DefaultLimit}

(* The `namespace` query parameter: absent or a namespace.                 *)
Namespaces == {"", "git"}

(* list_namespaced_pod(namespace) or list_pod_for_all_namespaces()         *)
ListedPodResults ==
    {Ret(l) : l \in ListedPods}
    \cup {[kind |-> "raise", val |-> <<>>, err |-> e] : e \in ApiErrors}

(* The whole handler: pods_status(namespace, limit) returns the sorted     *)
(* views or raises HTTPException(500).                                     *)
RequestPods ==
    /\ opPc = "idle"
    /\ op' = "pods"
    /\ \E namespace \in Namespaces, limit \in Limits, podsRes \in ListedPodResults :
          LET out == PodsStatus(podsRes, limit)
          IN  /\ opInput' = [namespace |-> namespace, limit |-> limit, pods |-> podsRes]
              /\ opResult' = out
              /\ opResponse' = IF out.kind = "raise"
                               THEN ServerError("pods", out.err)
                               ELSE [kind |-> "pods", code |-> 200, body |-> out.val]
    /\ opPc' = "done"
    /\ UNCHANGED <<client, signals, k8sVars, alertVars, frames, sock>>

----------------------------------------------------------------------------
(* ProcessManager.restart_process and POST /processes/{pid}/restart.       *)

AllowedProcesses == {"uvicorn", "gunicorn", "python", "node"}

TargetNames == AllowedProcesses \cup {"nginx"}

(* What a psutil call may raise: nothing, NoSuchProcess, AccessDenied, or  *)
(* another Exception.                                                      *)
PsutilErrors == {"none", "NoSuchProcess", "AccessDenied", "OSError"}

(* The host as one restart sees it: psutil.Process(pid), proc.name(),      *)
(* proc.terminate(), proc.wait(timeout=10), proc.kill().                   *)
RestartInputs ==
    [process : PsutilErrors, name : PsutilErrors, proc_name : TargetNames,
     terminate : PsutilErrors, wait : {"exited", "TimeoutExpired"}, kill : PsutilErrors]

(* The three except clauses of restart_process.                            *)
RestartFailure(err) ==
    IF err = "NoSuchProcess" THEN Outcome("error", "Process {pid} not found", "")
    ELSE IF err = "AccessDenied" THEN Outcome("error", "Access denied to process {pid}", "")
    ELSE Outcome("error", "Failed to restart process {pid}: {e}", err)

(* restart_process with terminate() moved ahead of the allow-list check.   *)
RestartProcessEager(inp) ==
    IF inp.process # "none"
    THEN [result |-> RestartFailure(inp.process), signals |-> <<>>]
    ELSE IF inp.name # "none"
    THEN [result |-> RestartFailure(inp.name), signals |-> <<>>]
    ELSE IF inp.terminate # "none"
    THEN [result |-> RestartFailure(inp.terminate), signals |-> <<>>]
    ELSE IF inp.proc_name \notin AllowedProcesses
    THEN [result |-> Outcome("error", "Restarting {proc_name} not allowed", inp.proc_name),
          signals |-> <<"SIGTERM">>]
    ELSE IF inp.wait = "exited"
    THEN [result |-> Outcome("success", "Process {pid} ({proc_name}) terminated successfully",
                             inp.proc_name),
          signals |-> <<"SIGTERM">>]
    ELSE IF inp.kill # "none"
    THEN [result |-> RestartFailure(inp.kill), signals |-> <<"SIGTERM">>]
    ELSE [result |-> Outcome("success", "Process {pid} ({proc_name}) killed after timeout",
                             inp.proc_name),
          signals |-> <<"SIGTERM", "SIGKILL">>]

RestartProcess(inp) ==
    IF inp.process # "none"
    THEN [result |-> RestartFailure(inp.process), signals |-> <<>>]
    ELSE IF inp.name # "none"
    THEN [result |-> RestartFailure(inp.name), signals |-> <<>>]
    ELSE IF inp.proc_name \notin AllowedProcesses
    THEN [result |-> Outcome("error", "Restarting {proc_name} not allowed", inp.proc_name),
          signals |-> <<>>]
    ELSE IF inp.terminate # "none"
    THEN [result |-> RestartFailure(inp.terminate), signals |-> <<>>]
    ELSE IF inp.wait = "exited"
    THEN [result |-> Outcome("success", "Process {pid} ({proc_name}) terminated successfully",
                             inp.proc_name),
          signals |-> <<"SIGTERM">>]
    ELSE IF inp.kill # "none"
    THEN [result |-> RestartFailure(inp.kill), signals |-> <<"SIGTERM">>]
    ELSE [result |-> Outcome("success", "Process {pid} ({proc_name}) killed after timeout",
                             inp.proc_name),
          signals |-> <<"SIGTERM", "SIGKILL">>]

(* POST /processes/{pid}/restart: process_manager.restart_process(pid)     *)
RequestRestart ==
    /\ opPc = "idle"
    /\ op' = "restart"
    /\ \E inp \in RestartInputs :
          /\ opInput' = inp
          /\ opResult' = RestartProcess(inp).result
          /\ signals' = RestartProcess(inp).signals
    /\ opPc' = "returned"
    /\ opResponse' = NoResponse
    /\ UNCHANGED <<client, k8sVars, alertVars, frames, sock>>

(* `if result["status"] == "error": raise HTTPException(400, ...)` inside  *)
(* the try block, else `return result`.                                    *)
FinishRestart ==
    /\ op = "restart"
    /\ opPc = "returned"
    /\ opResponse' =
          IF opResult.status = "error"
          THEN HandlerRaised(op, HTTPException(400, opResult.message.text,
                                               opResult.message.subject))
          ELSE [kind |-> op, code |-> 200, body |-> opResult]
    /\ opPc' = "done"
    /\ UNCHANGED <<op, opInput, opResult, client, signals, k8sVars, alertVars, frames, sock>>

(* The answer is delivered; the handler's frame and the manager are gone.  *)
RespondOps ==
    /\ opPc = "done"
    /\ op' = "none"
    /\ opPc' = "idle"
    /\ opInput' = NoInput
    /\ opResult' = NoResult
    /\ opResponse' = NoResponse
    /\ client' = "none"
    /\ signals' = <<>>
    /\ UNCHANGED <<k8sVars, alertVars, frames, sock>>

NextOps ==
    \/ RequestPods
    \/ RequestComposeHealth
    \/ FinishComposeHealth
    \/ RequestComposeProcess
    \/ FinishComposeProcess
    \/ RequestComposeProject
    \/ FinishComposeProject
    \/ RequestComposeRestart
    \/ FinishComposeRestart
    \/ RequestRestart
    \/ FinishRestart
    \/ RespondOps

SpecOps == Init /\ [][NextOps]_vars

----------------------------------------------------------------------------
(* Concurrent queries.  The event loop runs one coroutine until it awaits  *)
(* something that is not ready; the orchestrator client and the socket     *)
(* calls block, the registry probe's client.get(url) suspends.  Here a     *)
(* request may be overtaken at every probe boundary and at every GET, a    *)
(* superset of the schedules the event loop produces.  The collaborators   *)
(* answer from reduced sets: one sound answer and one failure per call.    *)

(* Variant: `services` is a module-level list shared by all requests.      *)
ServicesOwnerShared(r) == 1

(* `services = []` is a local of get_services_health(): request r appends  *)
(* to the list of its own call.                                            *)
ServicesOwner(r) == r

ConcPodResults ==
    {Ret(<<"Running">>)} \cup {[kind |-> "raise", val |-> <<>>, err |-> e] : e \in ApiErrors}

ConcOwnPodResults ==
    {Ret(<<OwnPod("Running", <<RegistryHost>>)>>), Ret(<<>>)}

ConcHttpResults ==
    {Ret(200), Ret(503)} \cup {[kind |-> "raise", val |-> 0, err |-> e] : e \in HttpErrors}

ConcConnectResults ==
    {Ret(0)}
    \cup {[kind |-> "raise", val |-> 0, err |-> e] : e \in {x \in SocketErrors : x.host}}

(* Request r's probe appended `entries` to the services list it writes to  *)
(* and request r moves on to try-block `next`, suspended on candidate u.   *)
FrameAppend(r, i, entries, next, u) ==
    LET o == ServicesOwner(r)
        f1 == [frames EXCEPT ![r].probe = next, ![r].url = u,
                             ![r].ran = @ \cup {i}]
    IN  frames' = [f1 EXCEPT ![o].services = AppendResult(@, entries),
                             ![o].origin = @ \o [k \in 1..Len(entries) |-> r]]

(* A query starts: its handler is entered and get_services_health() called *)
(* with a fresh list.                                                      *)
BeginRequest(r) ==
    /\ frames[r].pc = "idle"
    /\ \E h \in {"services", "cluster", "gitops"} :
          frames' = [frames EXCEPT ![r] = [IdleFrame EXCEPT !.handler = h, !.pc = "probes"]]
    /\ UNCHANGED <<k8sVars, alertVars, opsVars, sock>>

(* One of the blocking try-blocks: ArgoCD, Gitea, Traefik, cert-manager,   *)
(* k3d LoadBalancer.                                                       *)
RunBlockingProbe(r) ==
    /\ frames[r].pc = "probes"
    /\ frames[r].probe \in {1, 2, 3, 4, 6}
    /\ \E podsRes \in ConcPodResults, connRes \in ConcConnectResults :
          LET i == frames[r].probe
              out == CASE i = 1 -> ArgoCDProbe(podsRes, Ret(<<"svc">>))
                       [] i = 2 -> GiteaProbe(podsRes, Ret(<<"svc">>), Ret(<<"Running">>))
                       [] i = 3 -> TraefikProbe(podsRes, Ret(<<"svc">>))
                       [] i = 4 -> CertManagerProbe(podsRes, Ret(<<"Running">>),
                                                    Ret(<<"Running">>))
                       [] i = 6 -> LoadBalancerProbe(connRes, Ret("172.18.0.1"))
          IN  FrameAppend(r, i, out.entries, i + 1, 0)
    /\ UNCHANGED <<k8sVars, alertVars, opsVars, sock>>

(* The registry try-block up to its first await: the own-pod check, then   *)
(* either the 'healthy' result or the first client.get(url).               *)
RegistryBegin(r) ==
    /\ frames[r].pc = "probes"
    /\ frames[r].probe = 5
    /\ frames[r].url = 0
    /\ \E ownRes \in ConcOwnPodResults :
          IF RegistryWorking(ownRes.val)
          THEN FrameAppend(r, 5, RegistryProbe(ownRes, Ret(0), <<>>).entries, 6, 0)
          ELSE FrameAppend(r, 5, <<>>, 5, 1)
    /\ UNCHANGED <<k8sVars, alertVars, opsVars, sock>>

(* client.get(url) for the candidate the probe is suspended on completes.  *)
RegistryGet(r) ==
    /\ frames[r].pc = "probes"
    /\ frames[r].probe = 5
    /\ frames[r].url > 0
    /\ \E res \in ConcHttpResults :
          LET u == frames[r].url
              rest == [k \in 1..Len(RegistryUrls) |-> IF k = u THEN res ELSE Ret(503)]
          IN  IF res.kind = "ret" /\ Acceptable(res.val)
              THEN FrameAppend(r, 5, TryUrls(u, rest, <<>>, NoErr).entries, 6, 0)
              ELSE IF u < Len(RegistryUrls)
              THEN FrameAppend(r, 5, <<>>, 5, u + 1)
              ELSE FrameAppend(r, 5, TryUrls(u, rest, <<>>, NoErr).entries, 6, 0)
    /\ UNCHANGED <<k8sVars, alertVars, opsVars, sock>>

(* get_services_health() returns the list of this call to the handler,     *)
(* which builds its answer from it.                                        *)
FinishRequest(r) ==
    /\ frames[r].pc = "probes"
    /\ frames[r].probe = NumProbes + 1
    /\ \E n \in CoreNodeLists, p \in CorePodLists :
          LET f == frames[r]
              answer ==
                 CASE f.handler = "services" ->
                        [kind |-> "services", code |-> 200, body |-> f.services]
                   [] f.handler = "cluster" -> ClusterStatus(n, p, f.services)
                   [] f.handler = "gitops" ->
                        GitopsStatus(f.services, NodesStatus(Ret(n)).val,
                                     PodsStatus(Ret(p), DefaultLimit).val)
          IN  frames' = [frames EXCEPT ![r].pc = "done", ![r].response = answer]
    /\ UNCHANGED <<k8sVars, alertVars, opsVars, sock>>

(* The answer is delivered and the request's frame is discarded.           *)
DeliverRequest(r) ==
    /\ frames[r].pc = "done"
    /\ frames' = [frames EXCEPT ![r] = IdleFrame]
    /\ UNCHANGED <<k8sVars, alertVars, opsVars, sock>>

NextConcurrent ==
    \E r \in Requests :
        \/ BeginRequest(r)
        \/ RunBlockingProbe(r)
        \/ RegistryBegin(r)
        \/ RegistryGet(r)
        \/ FinishRequest(r)
        \/ DeliverRequest(r)

SpecConcurrent == Init /\ [][NextConcurrent]_vars

----------------------------------------------------------------------------
(* One probe applied to every combination of its collaborators' answers.   *)

ProbeInputs ==
    [ArgoCD |-> [pods : ProbePodResults, svc : SvcResults],
     Gitea |-> [pods : ProbePodResults, svc : SvcResults, db : ProbePodResults],
     Traefik |-> [pods : ProbePodResults, svc : SvcResults],
     CertManager |-> [ctl : ProbePodResults, hook : ProbePodResults, inj : ProbePodResults],
     Registry |-> [own : OwnPodResults, client : ClientResults,
                   gets : [1..Len(RegistryUrls) -> HttpResults]],
     LoadBalancer |-> [conn : ConnectResults, res : ResolveResults]]

InitProbes ==
    /\ InitK8s
    /\ InitFrames
    /\ resources = NoResources
    /\ alertPc = "start"
    /\ alerts = <<>>
    /\ op \in DOMAIN ProbeInputs
    /\ opPc = "called"
    /\ opInput \in ProbeInputs[op]
    /\ opResult = NoResult
    /\ opResponse = NoResponse
    /\ client = "none"
    /\ signals = <<>>

ProbeReturns(name, out) ==
    /\ op = name
    /\ opPc = "called"
    /\ opResult' = out
    /\ opPc' = "returned"
    /\ sock' = IF name = "LoadBalancer" THEN ProbeSocket(opInput.conn) ELSE sock
    /\ UNCHANGED <<op, opInput, opResponse, client, signals, k8sVars, alertVars, frames>>

RunArgoCD == ProbeReturns("ArgoCD", ArgoCDProbe(opInput.pods, opInput.svc))

RunGitea == ProbeReturns("Gitea", GiteaProbe(opInput.pods, opInput.svc, opInput.db))

RunTraefik == ProbeReturns("Traefik", TraefikProbe(opInput.pods, opInput.svc))

RunCertManager ==
    ProbeReturns("CertManager", CertManagerProbe(opInput.ctl, opInput.hook, opInput.inj))

RunRegistry ==
    ProbeReturns("Registry", RegistryProbe(opInput.own, opInput.client, opInput.gets))

RunLoadBalancer ==
    ProbeReturns("LoadBalancer", LoadBalancerProbe(opInput.conn, opInput.res))

NextProbes ==
    \/ RunArgoCD
    \/ RunGitea
    \/ RunTraefik
    \/ RunCertManager
    \/ RunRegistry
    \/ RunLoadBalancer

SpecProbes == InitProbes /\ [][NextProbes]_vars

----------------------------------------------------------------------------
(* Properties.                                                             *)

(* The service names in declaration order.                                 *)
ServiceOrder ==
    <<"ArgoCD", "Gitea", "Traefik", "cert-manager", "Local Registry", "k3d LoadBalancer">>

StatusEnum == {"healthy", "unhealthy", "warning", "error"}

GitopsOk == response.kind = "gitops" /\ response.code = 200
ClusterOk == response.kind = "cluster" /\ response.code = 200
ServicesOk == response.kind = "services" /\ response.code = 200

(* Every container of the pod reports ready.                               *)
EveryContainerReady(pod) == \A c \in 1..Len(pod.cs.items) : pod.cs.items[c]

\* C1: /gitops reports platform_healthy = true exactly when every probe
\* result is 'healthy', every node view is ready and at least 90% of the pod
\* views are ready, a pod view being ready when every container of its pod is
\* ready; so one probe that is not 'healthy' makes it false.
C1_PlatformHealthyIff ==
    GitopsOk =>
        /\ response.platform_healthy <=>
              /\ \A i \in 1..Len(response.services.details) :
                    response.services.details[i].status = "healthy"
              /\ \A i \in 1..Len(nodes_data) : nodes_data[i].ready
              /\ 10 * Cardinality({i \in 1..Len(pods_data) : pods_data[i].ready})
                    >= 9 * Len(pods_data)
        /\ \A i \in 1..Len(pods_data) :
              /\ PodNamed(pods, pods_data[i].name).name = pods_data[i].name
              /\ pods_data[i].ready = EveryContainerReady(PodNamed(pods, pods_data[i].name))

C1_Witness ==
    /\ GitopsOk
    /\ ~response.platform_healthy
    /\ Len(nodes_data) = 2
    /\ \A i \in 1..Len(nodes_data) : nodes_data[i].ready
    /\ Len(pods_data) = 1
    /\ \A i \in 1..Len(pods_data) : pods_data[i].ready
    /\ Cardinality({i \in 1..Len(services) : services[i].status # "healthy"}) = 1

\* C2: /gitops evaluates the pod tolerance over the full pod list: with N
\* pods returned by the orchestrator it uses total_pods = N and running_pods
\* = the number of those N pods that are ready.
C2_FullPodList ==
    GitopsOk =>
        response.infrastructure.pods_running =
            <<Cardinality({j \in 1..Len(pods) : EveryContainerReady(pods[j])}), Len(pods)>>

\* C3: /cluster reports healthy = true exactly when nodes_ready = nodes_total,
\* pods_running > 0 and services_healthy > 0, where nodes_ready counts the
\* nodes with a condition Ready/True, pods_running the pods in phase Running
\* and services_healthy the 'healthy' probe results.
C3_ClusterHealthyIff ==
    ClusterOk =>
        /\ response.nodes_total = Len(nodes)
        /\ response.nodes_ready =
              Cardinality({i \in 1..Len(nodes) :
                 \E c \in 1..Len(nodes[i].conditions) :
                    nodes[i].conditions[c] = [type |-> "Ready", status |-> "True"]})
        /\ response.pods_running =
              Cardinality({i \in 1..Len(pods) : pods[i].phase = "Running"})
        /\ response.services_healthy =
              Cardinality({i \in 1..Len(services) : services[i].status = "healthy"})
        /\ response.healthy <=>
              /\ response.nodes_ready = response.nodes_total
              /\ response.pods_running > 0
              /\ response.services_healthy > 0
        /\ (response.pods_running = 0 => ~response.healthy)

C3_Witness ==
    /\ ClusterOk
    /\ response.healthy
    /\ response.nodes_total = 2
    /\ response.pods_running = 1
    /\ response.services_healthy = 1

\* C4: every probe that has run has produced exactly one HealthStatus, and a
\* probe that has not run none; each status is one of healthy, unhealthy,
\* warning, error and each message is non-empty.
C4_ExactlyOneStatus ==
    /\ \A i \in 1..NumProbes :
          Cardinality({k \in 1..Len(services) : services[k].service = ServiceOrder[i]})
             = (IF i \in executed THEN 1 ELSE 0)
    /\ \A k \in 1..Len(services) :
          /\ services[k].status \in StatusEnum
          /\ services[k].message.text # ""
          /\ services[k].service \in {ServiceOrder[i] : i \in 1..NumProbes}

C4_Witness ==
    /\ executed = 1..NumProbes
    /\ Len(services) = NumProbes
    /\ raised[1] # NoErr
    /\ raised[5] # NoErr
    /\ services[5].status = "healthy"
    /\ raised[6] # NoErr

\* C5 (as stated): whenever a call of a probe raised, that probe's
\* HealthStatus has status 'error' and embeds the error text.
C5_AlwaysError ==
    \A i \in executed :
        raised[i] # NoErr =>
            /\ i <= Len(services)
            /\ services[i].status = "error"
            /\ services[i].message.err = raised[i]

\* C5 (amended): when a call of a probe raises, the probe does not propagate
\* it; the four pod-based probes report 'error' with the error text; the
\* registry probe reports 'warning' with the first 80 characters of the text
\* when the own-pod lookup or the client set-up raised, and 'healthy' or
\* 'warning' without the text when only a GET raised; the load balancer
\* probe reports 'warning' when the text contains the hostname and 'healthy'
\* otherwise.
C5_ErrorPolicy ==
    \A i \in executed :
        raised[i] # NoErr =>
            /\ i <= Len(services)
            /\ probe > i
            /\ i \in 1..4 =>
                  /\ services[i].status = "error"
                  /\ services[i].message.err = raised[i]
            /\ (i = 5 /\ httpLog = <<>>) =>
                  /\ services[i].status = "warning"
                  /\ services[i].message.err.text = raised[i].text
                  /\ services[i].message.err.len = Min(raised[i].len, 80)
            /\ (i = 5 /\ httpLog # <<>>) =>
                  /\ services[i].status \in {"healthy", "warning"}
                  /\ services[i].message.err = NoErr
            /\ i = 6 =>
                  /\ services[i].status = (IF raised[i].host THEN "warning" ELSE "healthy")
                  /\ services[i].message.err = NoErr

C5_Witness ==
    /\ executed = 1..NumProbes
    /\ raised[2] # NoErr
    /\ services[2].status = "error"
    /\ raised[5].len > 80
    /\ services[5].message.err.len = 80
    /\ raised[6] # NoErr
    /\ services[6].status = "healthy"

(* Probe i itself failed: one of its calls raised, or (registry) no        *)
(* candidate URL answered 200 or 401.                                      *)
ProbeFailed(i) ==
    \/ raised[i] # NoErr
    \/ /\ i = 5
       /\ httpLog # <<>>
       /\ \A k \in 1..Len(httpLog) : httpLog[k].kind = "raise" \/ httpLog[k].code \notin {200, 401}

\* C6: a probe's failure aborts neither its siblings nor the aggregate: once
\* the probes have begun the cycle ends only after all six have run, the
\* aggregator returns six results, and a result is 'error' or 'warning' only
\* if that probe itself failed.
C6_FailureIsolation ==
    /\ \A i \in executed :
          /\ i <= Len(services)
          /\ services[i].status \in {"error", "warning"} => ProbeFailed(i)
          /\ (i < NumProbes /\ pc = "probes" /\ probe = i + 1) => ENABLED Next
    /\ (pc = "done" /\ executed # {}) =>
          /\ executed = 1..NumProbes
          /\ Len(services) = NumProbes
    /\ (pc = "done" /\ handler = "services") => ServicesOk /\ Len(response.body) = NumProbes

C6_Witness ==
    /\ ServicesOk
    /\ raised[1] # NoErr
    /\ raised[4] # NoErr
    /\ services[2].status = "healthy"
    /\ services[3].status = "unhealthy"
    /\ services[5].status = "healthy"
    /\ services[6].status = "healthy"
    /\ raised[6] = NoErr

ServiceNames(svcs) == [k \in 1..Len(svcs) |-> svcs[k].service]

\* C7: the list built by the Service Aggregator is always a prefix of the
\* declaration order ArgoCD, Gitea, Traefik, cert-manager, Local Registry,
\* k3d LoadBalancer, and the list returned (also by /services) is that order.
C7_DeclarationOrder ==
    /\ ServiceNames(services) = SubSeq(ServiceOrder, 1, Len(services))
    /\ ServicesOk => ServiceNames(response.body) = ServiceOrder
    /\ GitopsOk => ServiceNames(response.services.details) = ServiceOrder

C7_Witness ==
    /\ ServicesOk
    /\ response.body[1].status = "healthy"
    /\ response.body[3].status = "error"
    /\ response.body[5].status = "warning"

Roles == {"gitops", "git_repository", "ingress", "tls_manager", "registry", "loadbalancer"}

RoleService ==
    [gitops |-> "ArgoCD", git_repository |-> "Gitea", ingress |-> "Traefik",
     tls_manager |-> "cert-manager", registry |-> "Local Registry",
     loadbalancer |-> "k3d LoadBalancer"]

\* C9: in every successful /gitops response the components mapping has
\* exactly the six fixed keys; each value is the first HealthStatus whose
\* service name matches the role, or the none sentinel when there is none.
C9_SixComponents ==
    GitopsOk =>
        /\ DOMAIN response.components = Roles
        /\ \A r \in Roles :
              LET d == response.services.details
                  m == {k \in 1..Len(d) : d[k].service = RoleService[r]}
              IN  IF m = {}
                  THEN response.components[r] = None
                  ELSE response.components[r] = d[CHOOSE k \in m : \A x \in m : k <= x]

C9_Witness ==
    /\ GitopsOk
    /\ response.components["gitops"].status = "error"
    /\ response.components["registry"].status = "warning"
    /\ response.components["loadbalancer"].status = "healthy"

(* The alert of type t in the returned list.                               *)
AlertsOf(t) == {k \in 1..Len(alerts) : alerts[k].type = t}

HasAlert(t, sev) ==
    /\ Cardinality(AlertsOf(t)) = 1
    /\ \A k \in AlertsOf(t) : alerts[k].severity = sev

NoAlert(t) == AlertsOf(t) = {}

(* An alert above warn, 'warning' below crit and 'critical' from crit on.  *)
TieredAlert(t, value, warn, crit) ==
    IF value <= warn * Unit THEN NoAlert(t)
    ELSE IF value < crit * Unit THEN HasAlert(t, "warning")
    ELSE HasAlert(t, "critical")

\* C10: for every resource snapshot check_resource_alerts returns exactly: a
\* cpu alert iff cpu_percent > 80, a memory alert iff memory_percent > 80, a
\* disk alert iff disk_usage_percent > 85, 'warning' below 90/90/95 and
\* 'critical' from there on, and a 'warning' load alert iff load_average[0] >
\* 2 * cpu_count; nothing else.
C10_AlertReference ==
    (alertPc = "returned" /\ resources.kind = "ret") =>
        LET r == resources.val
        IN  /\ TieredAlert("cpu", r.cpu_percent, 80, 90)
            /\ TieredAlert("memory", r.memory_percent, 80, 90)
            /\ TieredAlert("disk", r.disk_usage_percent, 85, 95)
            /\ IF r.load_average[1] > 2 * r.cpu_count * Unit
               THEN HasAlert("load", "warning")
               ELSE NoAlert("load")
            /\ \A k \in 1..Len(alerts) : alerts[k].type \in {"cpu", "memory", "disk", "load"}

C10_Witness ==
    /\ alertPc = "returned"
    /\ resources.kind = "ret"
    /\ resources.val.cpu_percent = 90 * Unit
    /\ resources.val.memory_percent = 80 * Unit
    /\ resources.val.disk_usage_percent = 86 * Unit
    /\ resources.val.cpu_count = 4
    /\ resources.val.load_average[1] = 8 * Unit + 1
    /\ Len(alerts) = 3

\* C11: when get_system_resources raises, check_resource_alerts does not
\* raise: it returns a list of exactly one alert, of type 'system' and
\* severity 'error', carrying the failure text; no cpu, memory, disk or load
\* alert accompanies it.
C11_SystemAlertOnFailure ==
    /\ (alertPc = "start" /\ resources.kind = "raise") => ENABLED CheckAlerts
    /\ (alertPc = "returned" /\ resources.kind = "raise") =>
          /\ Len(alerts) = 1
          /\ alerts[1].type = "system"
          /\ alerts[1].severity = "error"
          /\ alerts[1].message.err = resources.err
          /\ alerts[1].message.err.text # ""
          /\ \A t \in {"cpu", "memory", "disk", "load"} : NoAlert(t)

C11_Witness ==
    /\ alertPc = "returned"
    /\ resources.kind = "raise"
    /\ HasAlert("system", "error")

(* The processes of the /project answer.                                   *)
Procs == opInput.processes

HealthReturned == op = "compose_health" /\ opPc \in {"returned", "done"}

ProjectObtained == opInput.kind = "ret" /\ opInput.code = 200 /\ opInput.json = "ok"

\* C12: for every process list obtained from the remote supervisor,
\* get_process_health returns 'unhealthy' iff at least one process is Failed
\* or Crashed, otherwise 'healthy' iff the number of Running processes equals
\* the number of processes (the empty list included), otherwise 'degraded';
\* the failed check takes precedence.
C12_ProcessHealthRule ==
    (HealthReturned /\ ProjectObtained) =>
        LET failed == {i \in 1..Len(Procs) : Procs[i].status \in {"Failed", "Crashed"}}
            running == {i \in 1..Len(Procs) : Procs[i].status = "Running"}
        IN  /\ opResult.status \in {"unhealthy", "healthy", "degraded"}
            /\ opResult.status = "unhealthy" <=> failed # {}
            /\ opResult.status = "healthy" <=>
                  (failed = {} /\ Cardinality(running) = Len(Procs))
            /\ opResult.status = "degraded" <=>
                  (failed = {} /\ Cardinality(running) # Len(Procs))
            /\ Procs = <<>> => opResult.status = "healthy"
            /\ opResult.status = "unhealthy" =>
                  {opResult.message.names[k] : k \in 1..Len(opResult.message.names)}
                     = {Procs[i].name : i \in failed}

C12_Witness ==
    /\ HealthReturned
    /\ ProjectObtained
    /\ Len(Procs) = 3
    /\ Procs[1].status = "Running"
    /\ Procs[2].status = "Crashed"
    /\ Procs[3].status = "Running"
    /\ opResult.status = "unhealthy"

\* C13: when the project query yields no project info (the connection
\* fails, the answer is not a 200, or the 200 answer cannot be parsed),
\* get_process_health returns status 'error' and does not raise; it returns
\* none of 'healthy', 'degraded', 'unhealthy'; and /compose/health answers.
C13_ErrorWhenUnavailable ==
    /\ (HealthReturned /\ ~ProjectObtained) =>
          /\ opResult.status = "error"
          /\ opResult.status \notin {"healthy", "degraded", "unhealthy"}
    /\ (op = "compose_health" /\ opPc = "returned") => ENABLED FinishComposeHealth
    /\ (op = "compose_health" /\ opPc = "done") =>
          opResponse.code = 200 /\ opResponse.body = opResult

C13_Witness ==
    /\ op = "compose_health"
    /\ opPc = "done"
    /\ opInput.kind = "raise"
    /\ opResponse.body.status = "error"

\* C14 (as stated): a restart whose target process name is not on the
\* allow-list is answered with a 400 response, not with a 500.
C14_RejectionIs400 ==
    (op = "restart" /\ opPc = "done"
       /\ opInput.process = "none" /\ opInput.name = "none"
       /\ opInput.proc_name \notin {"uvicorn", "gunicorn", "python", "node"}) =>
        opResponse.code = 400

\* C15 (as stated): a GET /compose/processes/{name} for a process the remote
\* supervisor does not know is answered with a 404 response whose message
\* names the process, not with a 500.
C15_UnknownIs404 ==
    (op = "compose_process" /\ opPc = "done"
       /\ opInput.answer.kind = "ret" /\ opInput.answer.code = 404) =>
        /\ opResponse.code = 404
        /\ opResponse.detail.subject = opInput.process_name

(* Three nodes all Ready, fifty pods all Running, six probes all healthy.  *)
FleetState ==
    /\ Len(nodes) = 3
    /\ \A i \in 1..Len(nodes) :
          \E c \in 1..Len(nodes[i].conditions) :
             nodes[i].conditions[c] = [type |-> "Ready", status |-> "True"]
    /\ Len(pods) = 50
    /\ \A i \in 1..Len(pods) : pods[i].phase = "Running"
    /\ Len(services) = 6
    /\ \A i \in 1..Len(services) : services[i].status = "healthy"

(* Every pod has container statuses and every container reports ready.    *)
FleetContainersReady ==
    \A i \in 1..Len(pods) :
        /\ pods[i].cs.present
        /\ pods[i].cs.items # <<>>
        /\ \A c \in 1..Len(pods[i].cs.items) : pods[i].cs.items[c]

AnswerList(r) ==
    IF frames[r].response.kind = "services" THEN frames[r].response.body
    ELSE IF frames[r].response.kind = "gitops" THEN frames[r].response.services.details
    ELSE frames[r].services

(* Request r works on entries of its own making, in declaration order.     *)
OwnResults(r) ==
    /\ \A k \in 1..Len(frames[r].origin) : frames[r].origin[k] = r
    /\ Len(frames[r].origin) = Len(frames[r].services)
    /\ ServiceNames(frames[r].services) = SubSeq(ServiceOrder, 1, Len(frames[r].services))
    /\ frames[r].pc = "idle" => frames[r].services = <<>>
    /\ frames[r].pc = "done" =>
          /\ frames[r].ran = 1..NumProbes
          /\ Len(frames[r].services) = NumProbes
          /\ AnswerList(r) = frames[r].services
          /\ ServiceNames(AnswerList(r)) = ServiceOrder

(* A step changes the locals of at most one request.                       *)
OneFrameChanges ==
    \A r \in Requests, q \in Requests :
        r # q => (frames'[r] = frames[r] \/ frames'[q] = frames[q])

\* C17: no probe result is shared or reused across requests: in every
\* interleaving of concurrent queries each query runs all six probes itself,
\* from an empty list, and returns its own six results in declaration order,
\* none of them produced for another query; and a step of one query changes
\* nothing that another query sees.
C17_NoSharing == [](\A r \in Requests : OwnResults(r)) /\ [][OneFrameChanges]_vars

C17_Witness ==
    /\ frames[1].pc = "done"
    /\ frames[1].response.kind = "services"
    /\ frames[1].services[1].status = "error"
    /\ frames[2].pc = "probes"
    /\ frames[2].probe = 5
    /\ frames[2].url = 2
    /\ frames[2].services[1].status = "healthy"

(* A pod selector answered with a non-empty list of pods all Running.      *)
SelectorOk(res) ==
    /\ res.kind = "ret"
    /\ res.val # <<>>
    /\ \A i \in 1..Len(res.val) : res.val[i] = "Running"

(* A service lookup answered with a non-empty list.                        *)
LookupOk(res) == res.kind = "ret" /\ res.val # <<>>

(* The answers a pod-based probe asks for, and its rule.                   *)
ProbeAnswers ==
    CASE op = "ArgoCD" -> {opInput.pods, opInput.svc}
      [] op = "Gitea" -> {opInput.pods, opInput.svc, opInput.db}
      [] op = "Traefik" -> {opInput.pods, opInput.svc}
      [] op = "CertManager" -> {opInput.ctl, opInput.hook, opInput.inj}

ProbeRule ==
    CASE op = "ArgoCD" -> SelectorOk(opInput.pods) /\ LookupOk(opInput.svc)
      [] op = "Gitea" ->
           SelectorOk(opInput.pods) /\ SelectorOk(opInput.db) /\ LookupOk(opInput.svc)
      [] op = "Traefik" -> SelectorOk(opInput.pods) /\ LookupOk(opInput.svc)
      [] op = "CertManager" ->
           SelectorOk(opInput.ctl) /\ SelectorOk(opInput.hook) /\ SelectorOk(opInput.inj)

PodBasedReturned ==
    op \in {"ArgoCD", "Gitea", "Traefik", "CertManager"} /\ opPc = "returned"

\* C18: each pod-based probe reports 'healthy' if and only if every one of
\* its pod selectors returns a non-empty list of pods all in phase Running
\* and, where it looks up a service, the lookup is non-empty (ArgoCD and
\* Traefik: pods + service; Gitea: app pods + database pods + service;
\* cert-manager: controller, webhook and CA-injector pods); when no call
\* raises and the rule fails the status is 'unhealthy'.
C18_PodProbeRule ==
    PodBasedReturned =>
        /\ Len(opResult.entries) = 1
        /\ opResult.entries[1].status = "healthy" <=> ProbeRule
        /\ ((\A a \in ProbeAnswers : a.kind = "ret") /\ ~ProbeRule) =>
              opResult.entries[1].status = "unhealthy"

C18_Witness ==
    /\ op = "Gitea"
    /\ opPc = "returned"
    /\ SelectorOk(opInput.pods)
    /\ LookupOk(opInput.svc)
    /\ opInput.db = Ret(<<>>)
    /\ opResult.entries[1].status = "unhealthy"

RegistryReturned == op = "Registry" /\ opPc = "returned"

(* The own-pod check succeeds: the first own pod is Running and one of its *)
(* containers' images starts with the registry host.                       *)
OwnPodFromRegistry ==
    /\ opInput.own.kind = "ret"
    /\ opInput.own.val # <<>>
    /\ opInput.own.val[1].phase = "Running"
    /\ \E c \in 1..Len(opInput.own.val[1].images) :
          opInput.own.val[1].images[c] = "registry.localhost:5001"

\* C19: registry probe, first tier: when the monitor's own pod is Running
\* and one of its containers uses an image whose name starts with the
\* registry host, the probe reports 'healthy' and issues no HTTP request.
C19_FirstTierNoHttp ==
    (RegistryReturned /\ OwnPodFromRegistry) =>
        /\ Len(opResult.entries) = 1
        /\ opResult.entries[1].status = "healthy"
        /\ opResult.log = <<>>

C19_Witness ==
    /\ RegistryReturned
    /\ OwnPodFromRegistry
    /\ Len(opInput.own.val[1].images) = 2
    /\ opInput.gets[1] = Ret(200)
    /\ opResult.log = <<>>

(* Candidate k answered 200 or 401.                                        *)
CandidateOk(k) == opInput.gets[k].kind = "ret" /\ opInput.gets[k].val \in {200, 401}

\* C20: registry probe, fallback tier: when the own-pod check does not
\* succeed, the candidate URLs are tried in their fixed order; the first
\* candidate answering 200 or 401 makes the probe 'healthy' and no later
\* candidate is contacted; a candidate that raises or answers another code is
\* skipped; if no candidate answers acceptably the probe reports 'warning';
\* the probe never reports 'error' or 'unhealthy'.
C20_FallbackTier ==
    RegistryReturned =>
        /\ Len(opResult.entries) = 1
        /\ opResult.entries[1].status \in {"healthy", "warning"}
        /\ (opInput.own.kind = "ret" /\ ~OwnPodFromRegistry /\ opInput.client.kind = "ret") =>
              LET log == opResult.log
                  ok == {k \in 1..Len(RegistryUrls) : CandidateOk(k)}
              IN  /\ Len(log) <= Len(RegistryUrls)
                  /\ \A k \in 1..Len(log) :
                        /\ log[k].url = RegistryUrls[k]
                        /\ log[k].kind = opInput.gets[k].kind
                        /\ log[k].code = opInput.gets[k].val
                  /\ IF ok = {}
                     THEN /\ Len(log) = Len(RegistryUrls)
                          /\ opResult.entries[1].status = "warning"
                     ELSE /\ Len(log) = CHOOSE k \in ok : \A x \in ok : k <= x
                          /\ opResult.entries[1].status = "healthy"

C20_Witness ==
    /\ RegistryReturned
    /\ opInput.own = Ret(<<>>)
    /\ opInput.client.kind = "ret"
    /\ opInput.gets[1].kind = "raise"
    /\ opInput.gets[2] = Ret(401)
    /\ Len(opResult.log) = 2
    /\ opResult.entries[1].status = "healthy"

LoadBalancerReturned == op = "LoadBalancer" /\ opPc = "returned"

\* C21 (as stated): load balancer probe: a successful connect or a
\* successful resolution of the gateway host gives 'healthy'; a failed
\* connect together with a failed resolution gives 'unhealthy'; a raised
\* exception whose text contains the hostname gives 'warning', any other
\* raised exception 'healthy'; the probe never reports 'error'.
C21_Classification ==
    LoadBalancerReturned =>
        LET st == opResult.entries[1].status
            conn == opInput.conn
            res == opInput.res
        IN  /\ Len(opResult.entries) = 1
            /\ st # "error"
            /\ (conn.kind = "ret" /\ (conn.val = 0 \/ res.kind = "ret")) => st = "healthy"
            /\ (conn.kind = "ret" /\ conn.val # 0 /\ res.kind = "raise") => st = "unhealthy"
            /\ (conn.kind = "raise" /\ conn.err.host) => st = "warning"
            /\ (conn.kind = "raise" /\ ~conn.err.host) => st = "healthy"

PodsOk == op = "pods" /\ opPc = "done" /\ opResponse.code = 200

(* GET /pods was asked while the orchestrator delivered a pod list.        *)
PodsAnswered == op = "pods" /\ opPc = "done" /\ opInput.pods.kind = "ret"

Delivered == opInput.pods.val

\* C22 (as stated): GET /pods returns its list sorted by pod name ascending
\* and containing at most `limit` entries; the entries are the first `limit`
\* pods in the order delivered by the orchestrator, selected before sorting.
C22_SortedAndLimited ==
    PodsOk =>
        LET body == opResponse.body
        IN  /\ Len(body) <= opInput.limit
            /\ \A i \in 1..Len(body), j \in 1..Len(body) :
                  i < j => body[i].name <= body[j].name
            /\ {body[i].name : i \in 1..Len(body)}
                  = {Delivered[i].name : i \in 1..Min(Len(Delivered), opInput.limit)}

\* C23 (as stated): for every pod, the view has ready = true iff the pod has
\* at least one container status and every container status reports ready; a
\* pod with no container statuses (absent or empty) is reported with ready =
\* false and does not make /pods fail.
C23_ReadinessTotal ==
    PodsAnswered =>
        /\ opResponse.code = 200
        /\ \A i \in 1..Len(opResponse.body) :
              \E j \in 1..Len(Delivered) :
                 /\ Delivered[j].name = opResponse.body[i].name
                 /\ opResponse.body[i].ready <=>
                       /\ Delivered[j].cs.present
                       /\ Delivered[j].cs.items # <<>>
                       /\ \A c \in 1..Len(Delivered[j].cs.items) : Delivered[j].cs.items[c]

RestartCalled == op = "restart" /\ opPc \in {"returned", "done"}

(* The first psutil call that raised, or "none".                           *)
FirstRaised(inp) ==
    IF inp.process # "none" THEN inp.process
    ELSE IF inp.name # "none" THEN inp.name
    ELSE IF inp.proc_name \notin AllowedProcesses THEN "none"
    ELSE IF inp.terminate # "none" THEN inp.terminate
    ELSE IF inp.wait = "TimeoutExpired" THEN inp.kill
    ELSE "none"

\* C24: restart_process sends no signal to a process whose name is not on the
\* allow-list; for an allow-listed process it sends the terminate signal
\* first and the kill signal only after the wait timed out, never before
\* terminate and never when the process exited in time; a missing process or
\* denied access yields an error result with no exception raised.
C24_RestartDiscipline ==
    RestartCalled =>
        /\ signals \in {<<>>, <<"SIGTERM">>, <<"SIGTERM", "SIGKILL">>}
        /\ signals # <<>> =>
              /\ opInput.process = "none"
              /\ opInput.name = "none"
              /\ opInput.proc_name \in AllowedProcesses
        /\ Len(signals) = 2 => opInput.wait = "TimeoutExpired"
        /\ opResult.status \in {"success", "error"}
        /\ FirstRaised(opInput) \in {"NoSuchProcess", "AccessDenied"} =>
              /\ opResult.status = "error"
              /\ opResult.message.text
                    = IF FirstRaised(opInput) = "NoSuchProcess"
                      THEN "Process {pid} not found"
                      ELSE "Access denied to process {pid}"

C24_Witness ==
    /\ RestartCalled
    /\ opInput.process = "none"
    /\ opInput.name = "none"
    /\ opInput.proc_name = "nginx"
    /\ signals = <<>>
    /\ opResult.status = "error"

ComposeOps == {"compose_health", "compose_process", "compose_project", "compose_restart"}

\* C25: every proxied /compose/* request constructs its own client, and that
\* client is closed on every exit path of the handler (normal return, HTTP
\* error raised inside the scope, remote call raised); no client created for
\* a request remains open once the request has been answered.
C25_ClientReleased ==
    /\ opPc = "idle" => client = "none"
    /\ (op \in ComposeOps /\ opPc = "returned") => client = "open"
    /\ (op \in ComposeOps /\ opPc = "done") => client = "closed"
    /\ op \notin ComposeOps => client = "none"

\* The remote call raised, the handler raised its HTTP error inside the
\* scope, and the answer (500) is ready with the client closed.
C25_Witness ==
    /\ op = "compose_process"
    /\ opPc = "done"
    /\ opInput.answer.kind = "raise"
    /\ opResponse.code = 500
    /\ client = "closed"

(* Every pod of the snapshot that is ready has phase Running.              *)
ReadyPodsRun ==
    \A i \in 1..Len(pods) :
       (ReadyExpr(pods[i].cs).kind = "bool" /\ ReadyExpr(pods[i].cs).val)
          => pods[i].phase = "Running"

PlatformJudgedHealthy == GitopsOk /\ response.platform_healthy

(* The /cluster judgment of the snapshot /gitops has judged.               *)
ClusterJudgment == ClusterStatus(nodes, pods, services).healthy

\* C26 (as stated): for one and the same snapshot of nodes, pods (every ready
\* pod Running) and probe results, platform_healthy = true implies cluster
\* healthy = true, for all snapshots including those with zero pods or zero
\* nodes.
C26_PlatformStricter ==
    (PlatformJudgedHealthy /\ ReadyPodsRun) => ClusterJudgment

\* C26 (amended): the implication holds for every snapshot with at least one
\* pod, zero nodes included.
C26_PlatformStricterWithPods ==
    (PlatformJudgedHealthy /\ ReadyPodsRun /\ pods # <<>>) => ClusterJudgment

C26_Witness ==
    /\ PlatformJudgedHealthy
    /\ ReadyPodsRun
    /\ pods # <<>>
    /\ nodes = <<>>
    /\ ClusterJudgment

\* C27: with an empty node list the node condition holds vacuously in both
\* aggregators: /cluster reports healthy = true with nodes_total = 0 whenever
\* pods_running > 0 and services_healthy > 0, and /gitops requires no node
\* for platform_healthy = true.
C27_NoNodesVacuous ==
    /\ (ClusterOk /\ response.nodes_total = 0) =>
          /\ nodes = <<>>
          /\ response.nodes_ready = 0
          /\ response.healthy <=>
                (response.pods_running > 0 /\ response.services_healthy > 0)
    /\ (GitopsOk /\ nodes = <<>>) =>
          /\ response.infrastructure.nodes_ready = <<0, 0>>
          /\ response.platform_healthy <=>
                /\ response.services.healthy = response.services.total
                /\ PodTolerance(response.infrastructure.pods_running[1],
                                response.infrastructure.pods_running[2])

C27_Witness ==
    /\ ClusterOk
    /\ nodes = <<>>
    /\ response.nodes_total = 0
    /\ response.pods_running > 0
    /\ response.healthy

AlertsAnswered == alertPc = "answered" /\ response.kind = "alerts"

\* C28: every /processes/alerts response has count equal to the number of
\* alerts and has_critical true iff some alert has severity 'critical'; it
\* holds at most one alert per type and at most four alerts; a 'load' alert
\* is never critical; and a response consisting of the single
\* 'system'/'error' alert has has_critical = false.
C28_AlertsResponse ==
    AlertsAnswered =>
        LET body == response.alerts
        IN  /\ response.code = 200
            /\ body = CheckResourceAlerts(resources)
            /\ response.count = Len(body)
            /\ response.has_critical <=> (\E i \in 1..Len(body) : body[i].severity = "critical")
            /\ \A i \in 1..Len(body), j \in 1..Len(body) :
                  body[i].type = body[j].type => i = j
            /\ Len(body) <= 4
            /\ \A i \in 1..Len(body) : body[i].type = "load" => body[i].severity # "critical"
            /\ (Len(body) = 1 /\ body[1].type = "system" /\ body[1].severity = "error")
                  => ~response.has_critical

C28_Witness ==
    /\ AlertsAnswered
    /\ response.count = 4
    /\ response.has_critical
    /\ \E i \in 1..4 : response.alerts[i].type = "load"

\* C29: every successful /cluster response satisfies 0 <= nodes_ready <=
\* nodes_total, 0 <= pods_running <= pods_total and 0 <= services_healthy <=
\* services_total, and services_total is always 6; every successful /gitops
\* response reports services.total = 6 with services.healthy <= 6 and
\* services.details of length 6.
C29_CountBounds ==
    /\ ClusterOk =>
          /\ 0 <= response.nodes_ready /\ response.nodes_ready <= response.nodes_total
          /\ 0 <= response.pods_running /\ response.pods_running <= response.pods_total
          /\ 0 <= response.services_healthy
          /\ response.services_healthy <= response.services_total
          /\ response.services_total = 6
    /\ GitopsOk =>
          /\ response.services.total = 6
          /\ 0 <= response.services.healthy /\ response.services.healthy <= 6
          /\ Len(response.services.details) = 6

\* A /cluster answer with some but not all nodes ready, pods running and
\* services healthy.
C29_Witness ==
    /\ ClusterOk
    /\ 0 < response.nodes_ready /\ response.nodes_ready < response.nodes_total
    /\ 0 < response.pods_running
    /\ 0 < response.services_healthy /\ response.services_healthy < 6

\* C30 (as stated): the socket opened by the load balancer probe is closed
\* before the probe finishes on every path, including the paths where the
\* connect attempt or the name resolution raises an exception.
C30_SocketClosed ==
    LoadBalancerReturned => sock = "closed"

====
